---- MODULE Spec2Model ----
(***************************************************************************)
(* Request lifecycle of the paywalled retrieval gateway (x402-rag).        *)
(*                                                                         *)
(* State: the server setting x402.enabled, the per-chunk prices held in    *)
(* the vector store, the chunk_purchases table (the ledger), and one       *)
(* record per request handler run (the four /docs routes).                 *)
(* Every await of a handler is a step of its own, so that two handlers     *)
(* interleave exactly where the event loop lets them: the two requests     *)
(* may overlap in any way or run one after the other.                      *)
(*                                                                         *)
(* LiveSpec is the gateway under the event loop's fairness; CancelSpec is  *)
(* LiveSpec with its request tasks open to cancellation.                   *)
(*                                                                         *)
(* Six components are verified on their own, each under a specification    *)
(* that holds the rest of the state still:                                 *)
(*   AuthSpec   the Authorization header, from the SDK's builder to the    *)
(*              server's verifier;                                         *)
(*   SdkSpec    X402RagClient._request and its one retry;                  *)
(*   ChalSpec   a 402 and the retry that answers it;                       *)
(*   StoreSpec  the indexers and the retrieval service over the vector     *)
(*              store;                                                     *)
(*   SplitSpec  the purchase service's split and paid subset;              *)
(*   PaySpec    the SDK's payment builder, its token account bootstrap and *)
(*              the retry that carries the payment.                        *)
(***************************************************************************)
EXTENDS Integers, Sequences, FiniteSets, TLC

VARIABLES enabled, price, ledger, purchased, req, auth, sdk, chal,
          doc_store, max_retrieved_chunks, op, pay

\* the gateway's own state, and the state of the components that are
\* verified on their own (each under a specification of its own).
gateway == <<enabled, price, ledger, purchased, req>>
side == <<auth, sdk, chal, doc_store, max_retrieved_chunks, op, pay>>
vars == <<enabled, price, ledger, purchased, req, auth, sdk, chal,
          doc_store, max_retrieved_chunks, op, pay>>
store == <<doc_store, max_retrieved_chunks, op>>

(* ---- bounds ---------------------------------------------------------- *)
NumChunks == 2
MaxPrice == 1
\* clock resolution: instants are counted in ticks, this many to a second
\* (datetime carries microseconds; the wire format carries whole seconds).
TicksPerSecond == 2
\* the longest chunk the splitter produces, in characters.
MaxChars == 2
\* the longest list of chunks handed to the ledger's split.
MaxResults == 3

(* ---- program constants ----------------------------------------------- *)
max_ttl_seconds == 300
clock_skew_seconds == 120
usdc_decimals == 6

(* ---- universes ------------------------------------------------------- *)
Tasks == {"t1", "t2"}
Wallets == {"wA", "wB"}
Chunks == 0 .. (NumChunks - 1)
Endpoints == {"search", "chunks", "index", "index_web"}
RetrievalEndpoints == {"search", "chunks"}
HeaderKinds == {"absent", "undecodable", "mismatch", "wellformed"}
VerifyReplies == {"raises", "invalid", "valid"}
SettleReplies == {"raises", "failed", "success"}
Reasons == {"", "insufficient funds"}
NoRequirements == -1
NoError == <<>>

\* the per-chunk prices the indexer stored: one table where every chunk
\* costs MaxPrice, and one where flooring left some chunks at price 0.
PriceTables ==
    {[c \in Chunks |-> MaxPrice], [c \in Chunks |-> c % (MaxPrice + 1)]}

(* ---- pure helpers ---------------------------------------------------- *)
RECURSIVE SumPrices(_, _)
SumPrices(S, p) ==
    IF S = {} THEN 0
    ELSE LET c == CHOOSE x \in S : TRUE IN p[c] + SumPrices(S \ {c}, p)

PaidChunkIdsForgetsLedger(w, ids, led) == {}

PaidChunkIdsOfAnyWallet(w, ids, led) ==
    IF ids = {} THEN {} ELSE {c \in ids : \E w2 \in Wallets : <<w2, c>> \in led}

\* PurchaseService.get_paid_chunk_ids: the ids of `ids` the wallet owns.
PaidChunkIds(w, ids, led) ==
    IF ids = {} THEN {} ELSE {c \in ids : <<w, c>> \in led}

FilterUnpaidChunksIgnoresPaid(w, chunks, led) ==
    [unpaid |-> chunks, paid |-> {}]

\* PurchaseService.filter_unpaid_chunks: split into (unpaid, paid).
FilterUnpaidChunks(w, chunks, led) ==
    IF chunks = {} THEN [unpaid |-> {}, paid |-> {}]
    ELSE LET paid_ids == PaidChunkIds(w, chunks, led) IN
         [unpaid |-> {c \in chunks : c \notin paid_ids},
          paid   |-> {c \in chunks : c \in paid_ids}]

TotalPriceChargesFreeChunks(unpaid, p) ==
    SumPrices(unpaid, p) + Cardinality({c \in unpaid : p[c] = 0})

\* total_price = sum([chunk.metadata.price for chunk in unpaid_chunks])
TotalPrice(unpaid, p) == SumPrices(unpaid, p)

CreatePaymentRequirementsUndercharges(total_price) ==
    IF total_price > 0 THEN total_price - 1 ELSE 0

\* X402PaymentHandler.create_payment_requirements: max_amount_required.
CreatePaymentRequirements(total_price) == total_price

\* settings.x402, read once at start-up.
X402Settings ==
    [network |-> "solana-devnet", usdc_address |-> "usdc-mint",
     pay_to_address |-> "merchant", fee_payer |-> "fee-payer"]

\* the PaymentRequirements object create_payment_requirements returns.
PaymentRequirements(total_price, resource) ==
    [scheme |-> "exact",
     network |-> X402Settings.network,
     asset |-> X402Settings.usdc_address,
     max_amount_required |-> CreatePaymentRequirements(total_price),
     resource |-> resource,
     pay_to |-> X402Settings.pay_to_address,
     extra |-> [feePayer |-> X402Settings.fee_payer]]

\* no PaymentRequirements built.
NoChallenge ==
    [scheme |-> "", network |-> "", asset |-> "",
     max_amount_required |-> NoRequirements, resource |-> "", pay_to |-> "",
     extra |-> [feePayer |-> ""]]

\* the PaymentPayload decoded from an X-PAYMENT header, and the dummy one
\* of a server with x402 disabled.
DecodePayment(header) == IF header = "wellformed" THEN "payload" ELSE ""
DummyPayment == "dummy"

\* the requirements of the dummy context of a server with x402 disabled.
DummyRequirements ==
    [scheme |-> "exact", network |-> X402Settings.network,
     asset |-> X402Settings.usdc_address, max_amount_required |-> 0,
     resource |-> "", pay_to |-> "", extra |-> [feePayer |-> ""]]

\* PaymentContext(payment, requirements, facilitator, is_verified)
PaymentContext(payment, requirements, is_verified) ==
    [payment |-> payment, requirements |-> requirements,
     is_verified |-> is_verified]

NoContext == PaymentContext("", NoChallenge, FALSE)

\* the arguments of a facilitator call that was not made.
NoCall == [payment |-> "", requirements |-> NoChallenge]

\* self.facilitator.verify(payment, payment_requirements)
VerifyArguments(payment, payment_requirements) ==
    [payment |-> payment, requirements |-> payment_requirements]

SettleArgumentsWithoutContext(payment_ctx) ==
    [payment |-> payment_ctx.payment, requirements |-> DummyRequirements]

\* payment_ctx.facilitator.settle(payment_ctx.payment, payment_ctx.requirements)
SettleArguments(payment_ctx) ==
    [payment |-> payment_ctx.payment, requirements |-> payment_ctx.requirements]

\* the chunk indices a range request may name: those of the stored
\* document, and one past its end.
RangeIndices == 0 .. NumChunks

ChunkRangeKeepsMissing(start_chunk, end_chunk) == start_chunk .. end_chunk

\* RetrievalService.get_chunk_range: ids start..end, missing ones omitted.
ChunkRange(start_chunk, end_chunk) ==
    {c \in Chunks : start_chunk <= c /\ c <= end_chunk}

VerifyAcceptsAnyReply(header, reply) == header = "wellformed"

\* verify_payment reaches `return PaymentContext(is_verified=True)`.
VerifyAccepts(header, reply) == header = "wellformed" /\ reply = "valid"

\* verify_payment: the error text of the 402 it raises.
VerifyError(header, reply, reason) ==
    IF header = "absent" THEN <<"No X-PAYMENT header provided", "">>
    ELSE IF header = "undecodable" THEN <<"Invalid payment header format", "">>
    ELSE IF header = "mismatch" THEN <<"Payment does not match requirements", "">>
    ELSE IF reply = "raises" THEN <<"Payment verification failed: ", "connection error">>
    ELSE <<"Invalid payment: ", IF reason = "" THEN "Unknown error" ELSE reason>>

\* verify_payment calls facilitator.verify only past the three header checks.
VerifyCalled(header) == header = "wellformed"

SettleSucceededAlways(reply) == TRUE

\* settle_payment: `if settle_response.success`.
SettleSucceeded(reply) == reply = "success"

\* settle_payment: the error text of the 402 it raises.
SettleError(reply, reason) ==
    IF reply = "raises" THEN <<"Settlement failed: ", "connection error">>
    ELSE <<"Settlement failed: ", IF reason = "" THEN "Unknown error" ELSE reason>>

AfterVerifySkipsSettle == "record"
AfterVerifyRetries == "verify"

\* the handler's statement after verify_payment returns: settle_payment.
AfterVerify == "settle"

UnpaidChunkIdsPricedOnly(r) == {c \in r.unpaid : price[c] > 0}

\* unpaid_chunk_ids = [stable_chunk_uuid(...) for chunk in unpaid_chunks]
UnpaidChunkIds(r) == r.unpaid

RecordSkippedOnlyWhenEmpty(chunk_ids, x402_enabled) == chunk_ids = {}

\* record_purchases' two early returns: nothing to record, x402 disabled.
RecordSkipped(chunk_ids, x402_enabled) == chunk_ids = {} \/ ~x402_enabled

PrimaryKeyConflictOnChunkAlone(w, ids, led) ==
    \E c \in ids, v \in Wallets : <<v, c>> \in led

\* the chunk_purchases primary key (user_address, chunk_id): a plain INSERT
\* of a row already present raises IntegrityError at commit.
PrimaryKeyConflict(w, ids, led) == \E c \in ids : <<w, c>> \in led

InsertPurchasesKeepsAddedRows(w, ids, led) ==
    [raised |-> PrimaryKeyConflict(w, ids, led),
     ledger |-> led \cup {<<w, c>> : c \in ids}]

InsertPurchasesReplacesRows(w, ids, led) ==
    [raised |-> FALSE, ledger |-> {<<w, c>> : c \in ids}]

\* record_purchases past its two early returns: session.add of every row
\* and one commit, which raises and rolls back on a primary-key conflict.
InsertPurchases(w, ids, led) ==
    IF PrimaryKeyConflict(w, ids, led)
    THEN [raised |-> TRUE, ledger |-> led]
    ELSE [raised |-> FALSE, ledger |-> led \cup {<<w, c>> : c \in ids}]

(* ---- authorization header: the SDK's builder, the server's verifier --- *)
NoSignature == [signer |-> "", signed |-> <<>>]
NoMsg == [v |-> 0, uri |-> "", issuedAt |-> 0]

\* `authorization: str | None = Header(None)` when the header is not sent.
NoAuthorization ==
    [scheme |-> "", wire |-> "", address |-> "", msg |-> NoMsg,
     sig |-> NoSignature]

\* what the text after "Solana " is to the server: base64url JSON with
\* address, msg and sig whose msg has v, uri and issuedAt ("ok"); something
\* json.loads or WirePayload refuses; or a payload whose msg AuthMessage
\* refuses.
WireForms == {"ok", "undecodable", "bad-msg"}

NoResult == [status |-> 0, address |-> "", detail |-> ""]

Keypairs == {"kA", "kB"}
\* str(request.url) of the four /docs routes.
Url(e) ==
    IF e = "search" THEN "http://rag/docs/search"
    ELSE IF e = "chunks" THEN "http://rag/docs/chunks"
    ELSE IF e = "index" THEN "http://rag/docs/index"
    ELSE "http://rag/docs/index/web"
Uris == {Url(e) : e \in Endpoints}
Versions == {1, 2}
Schemes == {"Solana", "Bearer"}
\* what Pubkey.from_string accepts, and a string it rejects.
Addresses == Wallets
BadAddress == "not-base58"
CANON_PREFIX == "solana-auth-v1"

\* str(keypair.pubkey())
Pubkey(k) == IF k = "kA" THEN "wA" ELSE "wB"

\* iso_utc: dt.replace(microsecond=0), rendered in UTC with a Z suffix.
IsoUtc(t) == t - (t % TicksPerSecond)

\* AuthMessage.canonical_string (the same text in the SDK and the server).
CanonicalString(msg) ==
    <<CANON_PREFIX, msg.v, msg.uri, IsoUtc(msg.issuedAt)>>

\* AuthMessage.export_public_dict
ExportPublicDict(msg) ==
    [v |-> msg.v, uri |-> msg.uri, issuedAt |-> IsoUtc(msg.issuedAt)]

\* keypair.sign_message: an Ed25519 signature of `bytes` under k.
SignMessage(k, bytes) == [signer |-> Pubkey(k), signed |-> bytes]

\* VerifyKey(bytes(pubkey)).verify(canonical, sig) does not raise.
VerifyKeyVerify(address, canonical, sig) ==
    sig.signer = address /\ sig.signed = canonical

BuildHeaderSignsRawInstant(k, uri, version, issued_at) ==
    LET msg == [v |-> version, uri |-> uri, issuedAt |-> issued_at] IN
    [scheme |-> "Solana", wire |-> "ok", address |-> Pubkey(k),
     msg |-> ExportPublicDict(msg),
     sig |-> SignMessage(k, <<CANON_PREFIX, version, uri, issued_at>>)]

\* build_solana_authorization_header
BuildSolanaAuthorizationHeader(k, uri, version, issued_at) ==
    LET msg == [v |-> version, uri |-> uri, issuedAt |-> issued_at] IN
    [scheme |-> "Solana", wire |-> "ok", address |-> Pubkey(k),
     msg |-> ExportPublicDict(msg),
     sig |-> SignMessage(k, CanonicalString(msg))]

FreshnessExclusive(issued, now) ==
    IF issued - now >= clock_skew_seconds * TicksPerSecond
    THEN "issued_at is in the future"
    ELSE IF now - issued >= (max_ttl_seconds + clock_skew_seconds) * TicksPerSecond
    THEN "message expired"
    ELSE ""

\* the two timedelta comparisons of verify_solana_authorization_header;
\* "" when neither raises.
Freshness(issued, now) ==
    IF issued - now > clock_skew_seconds * TicksPerSecond
    THEN "issued_at is in the future"
    ELSE IF now - issued > (max_ttl_seconds + clock_skew_seconds) * TicksPerSecond
    THEN "message expired"
    ELSE ""

VerifyChecksSignatureBeforeUri(header_value, request_uri, now) ==
    LET msg == header_value.msg IN
    IF header_value.scheme # "Solana"
    THEN [error |-> "Unsupported scheme", address |-> ""]
    ELSE IF header_value.wire = "undecodable"
    THEN [error |-> "Bad auth payload", address |-> ""]
    ELSE IF header_value.wire = "bad-msg"
    THEN [error |-> "Bad msg", address |-> ""]
    ELSE IF header_value.address \notin Addresses
    THEN [error |-> "Invalid address", address |-> ""]
    ELSE IF ~VerifyKeyVerify(header_value.address, CanonicalString(msg), header_value.sig)
    THEN [error |-> "Signature verify failed", address |-> ""]
    ELSE IF msg.uri # request_uri
    THEN [error |-> "URI mismatch", address |-> ""]
    ELSE IF Freshness(msg.issuedAt, now) # ""
    THEN [error |-> Freshness(msg.issuedAt, now), address |-> ""]
    ELSE [error |-> "", address |-> header_value.address]

\* verify_solana_authorization_header: the AuthError text, or "" and the
\* address it returns.
VerifySolanaAuthorizationHeader(header_value, request_uri, now) ==
    LET msg == header_value.msg IN
    IF header_value.scheme # "Solana"
    THEN [error |-> "Unsupported scheme", address |-> ""]
    ELSE IF header_value.wire = "undecodable"
    THEN [error |-> "Bad auth payload", address |-> ""]
    ELSE IF header_value.wire = "bad-msg"
    THEN [error |-> "Bad msg", address |-> ""]
    ELSE IF msg.uri # request_uri
    THEN [error |-> "URI mismatch", address |-> ""]
    ELSE IF Freshness(msg.issuedAt, now) # ""
    THEN [error |-> Freshness(msg.issuedAt, now), address |-> ""]
    ELSE IF header_value.address \notin Addresses
    THEN [error |-> "Invalid address", address |-> ""]
    ELSE IF ~VerifyKeyVerify(header_value.address, CanonicalString(msg), header_value.sig)
    THEN [error |-> "Signature verify failed", address |-> ""]
    ELSE [error |-> "", address |-> header_value.address]

GetUserAddressAnyUrl(authorization, url, now) ==
    IF authorization = NoAuthorization
    THEN [status |-> 401, address |-> "", detail |-> "Missing Authorization header"]
    ELSE LET v == VerifySolanaAuthorizationHeader(
                      authorization, authorization.msg.uri, now) IN
         IF v.error # ""
         THEN [status |-> 401, address |-> "",
               detail |-> "Authentication failed: " \o v.error]
         ELSE [status |-> 0, address |-> v.address, detail |-> ""]

\* get_user_address: the address, or the 401 it raises.
GetUserAddress(authorization, url, now) ==
    IF authorization = NoAuthorization
    THEN [status |-> 401, address |-> "", detail |-> "Missing Authorization header"]
    ELSE LET v == VerifySolanaAuthorizationHeader(authorization, url, now) IN
         IF v.error # ""
         THEN [status |-> 401, address |-> "",
               detail |-> "Authentication failed: " \o v.error]
         ELSE [status |-> 0, address |-> v.address, detail |-> ""]

\* the ages (now - issued_at, in ticks) tried: around both ends of the
\* window, and a fresh header.
Window == (max_ttl_seconds + clock_skew_seconds) * TicksPerSecond
Skew == clock_skew_seconds * TicksPerSecond
Ages ==
    {0} \cup {Window + d : d \in (0 - TicksPerSecond) .. TicksPerSecond}
        \cup {d - Skew : d \in (0 - TicksPerSecond) .. TicksPerSecond}


\* the Authorization headers a request may carry: none, one built now for
\* any route by any keypair, and one built too long ago.
RequestHeaders ==
    {NoAuthorization}
        \cup {BuildSolanaAuthorizationHeader(k, u, 1, 0) : k \in Keypairs, u \in Uris}
        \cup {BuildSolanaAuthorizationHeader(k, u, 1, 0 - Window - TicksPerSecond) :
                 k \in Keypairs, u \in Uris}

(* ---- request records -------------------------------------------------- *)
Idle ==
    [pc |-> "idle", endpoint |-> "search", wallet |-> "wA", chunks |-> {},
     unpaid |-> {}, owned |-> {}, total_price |-> 0,
     x_payment |-> "unread", verify_reply |-> "none", invalid_reason |-> "",
     is_verified |-> FALSE,
     requirements |-> NoRequirements, calls |-> <<>>, status |-> 0,
     error |-> NoError, accepts |-> NoRequirements,
     x_payment_response |-> FALSE, wrote |-> {}, covered |-> FALSE,
     authorization |-> NoAuthorization, requested |-> {},
     payment_ctx |-> NoContext, verified_with |-> NoCall,
     settled_with |-> NoCall]

\* the handler returns `result` (200), `e.response` (402) or raises 500/401.
RespondWithoutReturning(r, code, err, acc) ==
    [r EXCEPT !.status = code, !.error = err, !.accepts = acc]

Respond(r, code, err, acc) ==
    [r EXCEPT !.pc = "done", !.status = code, !.error = err, !.accepts = acc]

XPaymentResponseHeaderOfAnyExit(r) == r.x_payment_response

\* the X-PAYMENT-RESPONSE header of the response that goes out.
\* settle_payment sets it on the injected Response; that object's headers
\* go out only when the handler returns `result`: `return e.response` sends
\* the 402 response of the exception, and HTTPException sends a new one.
XPaymentResponseHeader(r) == r.x_payment_response /\ r.status = 200

PurchasedBy(w) == {c \in Chunks : <<w, c>> \in purchased}

(* ---- rest values of the side components ------------------------------ *)
AuthIdle ==
    [pc |-> "idle", now |-> 0, keypair |-> "", uri |-> "", version |-> 0,
     issued_at |-> 0, header |-> NoAuthorization, tampered |-> "",
     request_uri |-> "", result |-> NoResult]

NoHeaders == [Authorization |-> NoAuthorization, X_PAYMENT |-> ""]
NoOutcome == [kind |-> "", status |-> 0]

\* X402RagClient.__init__ without a keypair, before any call.
SdkIdle ==
    [pc |-> "idle", keypair |-> "", path |-> "", headers |-> NoHeaders,
     sent |-> <<>>, replies |-> <<>>, built |-> 0, payment_info |-> FALSE,
     outcome |-> NoOutcome]

\* no request of the challenge-and-retry exchange has arrived.
ChalIdle ==
    [pc |-> "idle", wallet |-> "", endpoint |-> "", chunks |-> {},
     first_unpaid |-> {}, first_ledger |-> {},
     first_price |-> [c \in Chunks |-> 0], echoed |-> NoChallenge,
     rebuilt |-> NoChallenge, retry_status |-> 0]

\* no operation on the vector store has run.
NoOp ==
    [kind |-> "", source |-> "", doc_id |-> <<>>, n_split |-> 0,
     chunk_chars |-> <<>>,
     total_chars |-> 0, price_base_units |-> 0, written |-> <<>>,
     chunks_count |-> 0, k |-> 0, start_chunk |-> 0, end_chunk |-> 0,
     chunk_ids |-> <<>>, docs |-> {}, ledger_ids |-> {}]

(* ---- the SDK's payment builder: values -------------------------------- *)
\* the two _request calls that answer a 402, each on its own task.
Payers == {"p1", "p2"}

\* DEFAULT_RPC: the networks X402SolanaConfig has an RPC for.
rpc_by_network == {"solana", "solana-devnet"}

\* the characters of a decimal literal, and int() over them.
DigitChars == <<"0", "1", "2", "3", "4", "5", "6", "7", "8", "9">>
Ch(d) == DigitChars[d + 1]
IsDigit(c) == \E d \in 0 .. 9 : Ch(d) = c
DigitOf(c) == CHOOSE d \in 0 .. 9 : Ch(d) = c
IsIntLiteral(s) == Len(s) > 0 /\ \A i \in 1 .. Len(s) : IsDigit(s[i])
RECURSIVE IntOf(_)
IntOf(s) ==
    IF s = <<>> THEN 0
    ELSE 10 * IntOf(SubSeq(s, 1, Len(s) - 1)) + DigitOf(s[Len(s)])

\* maxAmountRequired as the 402 body carries it: a string.
WireAmounts ==
    {<<Ch(d)>> : d \in 1 .. MaxPrice} \cup {<<"0", Ch(d)>> : d \in 1 .. MaxPrice}
        \cup {<<"x">>}

\* the first entry of accepts in a 402 body; feePayer "" is an entry
\* without extra.feePayer.
Accepted ==
    [scheme : {"exact", "upto"},
     network : {"solana-devnet", "base"},
     asset : {X402Settings.usdc_address},
     maxAmountRequired : WireAmounts,
     payTo : {X402Settings.pay_to_address, "other-merchant"},
     extra : [feePayer : {X402Settings.fee_payer, ""}]]
NoAccepted ==
    [scheme |-> "", network |-> "", asset |-> "", maxAmountRequired |-> <<>>,
     payTo |-> "", extra |-> [feePayer |-> ""]]

\* decimals = 6 if asset_decimals is None
asset_decimals == 6

\* get_associated_token_address(owner, mint): the derived address.
GetAssociatedTokenAddress(owner, mint) == <<owner, mint>>
NoAta == <<>>

\* build_x_payment_from_402_json and build_x_payment_header up to the
\* first await: the ValueError raised, "" when none is.
ValidateRequirementsSkipsFeePayer(requirements) ==
    IF ~IsIntLiteral(requirements.maxAmountRequired) THEN "invalid literal"
    ELSE IF requirements.scheme # "exact" THEN "Unsupported scheme"
    ELSE IF requirements.network \notin rpc_by_network THEN "Unknown network"
    ELSE ""

ValidateRequirements(requirements) ==
    IF ~IsIntLiteral(requirements.maxAmountRequired) THEN "invalid literal"
    ELSE IF requirements.scheme # "exact" THEN "Unsupported scheme"
    ELSE IF requirements.network \notin rpc_by_network THEN "Unknown network"
    ELSE IF requirements.extra.feePayer = ""
        THEN "requirements.extra.feePayer is required"
    ELSE ""

\* ensure_ata_exists: the transaction that creates the account.
CreateAtaTransactionPaidByFeePayer(payer_keypair, owner, mint) ==
    [payer |-> X402Settings.fee_payer,
     signers |-> {X402Settings.fee_payer},
     instructions |->
        <<[program |-> "create_idempotent_associated_token_account",
           payer |-> X402Settings.fee_payer, owner |-> owner, mint |-> mint]>>]

CreateAtaTransaction(payer_keypair, owner, mint) ==
    [payer |-> Pubkey(payer_keypair),
     signers |-> {Pubkey(payer_keypair)},
     instructions |->
        <<[program |-> "create_idempotent_associated_token_account",
           payer |-> Pubkey(payer_keypair), owner |-> owner, mint |-> mint]>>]

\* build_x_payment_header, steps 3 and 4: the versioned transaction, signed
\* by the owner alone (the fee payer's signature is a NullSigner's).
PaymentTransactionToWallet(kp, requirements, src_ata) ==
    [payer |-> requirements.extra.feePayer,
     signers |-> {Pubkey(kp)},
     null_signers |-> {requirements.extra.feePayer},
     instructions |->
        <<[program |-> "set_cu_limit"], [program |-> "set_cu_price"],
          [program |-> "transfer_checked", source |-> src_ata,
           mint |-> requirements.asset,
           dest |-> <<requirements.payTo>>,
           owner |-> Pubkey(kp),
           amount |-> IntOf(requirements.maxAmountRequired),
           decimals |-> asset_decimals]>>]

PaymentTransaction(kp, requirements, src_ata) ==
    [payer |-> requirements.extra.feePayer,
     signers |-> {Pubkey(kp)},
     null_signers |-> {requirements.extra.feePayer},
     instructions |->
        <<[program |-> "set_cu_limit"], [program |-> "set_cu_price"],
          [program |-> "transfer_checked", source |-> src_ata,
           mint |-> requirements.asset,
           dest |-> GetAssociatedTokenAddress(requirements.payTo,
                                              requirements.asset),
           owner |-> Pubkey(kp),
           amount |-> IntOf(requirements.maxAmountRequired),
           decimals |-> asset_decimals]>>]

\* build_x_payment_header, step 5: the payload the X-PAYMENT header encodes.
PaymentPayload(x402_version, network, tx) ==
    [x402Version |-> x402_version, scheme |-> "exact", network |-> network,
     payload |-> [transaction |-> tx]]
NoPayment == [x402Version |-> 0, scheme |-> "", network |-> ""]

\* PaymentInfo(paid_amount, pay_to), and None.
PaymentInfo(paid_amount, pay_to) == [paid_amount |-> paid_amount, pay_to |-> pay_to]
NoPaymentInfo == [paid_amount |-> -1, pay_to |-> ""]

\* what _request hands to its caller: a return value or an exception.
NoReturn == [kind |-> "", payment_info |-> NoPaymentInfo]

\* one _request call that has not received its 402.
PayerIdle(k) ==
    [pc |-> "idle", keypair |-> k, requirements |-> NoAccepted,
     paid_amount |-> -1, pay_to |-> "", info |-> "", src_ata |-> NoAta,
     trace |-> <<>>, x_payment |-> NoPayment, status |-> 0,
     payment_info |-> NoPaymentInfo, outcome |-> NoReturn]

\* the chain without accounts, and no call in progress.
PayIdle ==
    [accounts |-> {}, submitted |-> <<>>,
     proc |-> [p \in Payers |-> PayerIdle("")]]

StoreIdle ==
    /\ doc_store = {}
    /\ max_retrieved_chunks = 1
    /\ op = NoOp

SideIdle ==
    auth = AuthIdle /\ sdk = SdkIdle /\ chal = ChalIdle /\ StoreIdle /\ pay = PayIdle

Init ==
    /\ enabled \in BOOLEAN
    /\ price \in PriceTables
    /\ ledger = {}
    /\ purchased = {}
    /\ req = [t \in Tasks |-> Idle]
    /\ SideIdle

(* ---- actions ---------------------------------------------------------- *)
\* the instant at which the gateway's requests arrive.
Now == 0

\* get_user_address returns the verified address and the handler starts.
StartRequest(t) ==
    /\ req[t].pc = "idle"
    /\ \E e \in Endpoints, h \in RequestHeaders :
          LET who == GetUserAddress(h, Url(e), Now) IN
          /\ who.status = 0
          /\ req' = [req EXCEPT ![t] =
                       [Idle EXCEPT !.pc = IF e \in RetrievalEndpoints
                                           THEN "retrieve" ELSE "index",
                                    !.endpoint = e, !.wallet = who.address,
                                    !.authorization = h]]
    /\ UNCHANGED <<enabled, price, ledger, purchased, side>>

\* get_user_address raises HTTPException(401).
AuthReject(t) ==
    /\ req[t].pc = "idle"
    /\ \E e \in Endpoints, h \in RequestHeaders :
          LET who == GetUserAddress(h, Url(e), Now) IN
          /\ who.status = 401
          /\ req' = [req EXCEPT ![t] =
                       Respond([Idle EXCEPT !.endpoint = e, !.authorization = h],
                               401, NoError, NoRequirements)]
    /\ UNCHANGED <<enabled, price, ledger, purchased, side>>

\* index_docs / index_web_pages: the index service runs and answers, or
\* raises and the handler answers 500.
IndexDocuments(t) ==
    /\ req[t].pc = "index"
    /\ \E code \in {200, 500} :
          req' = [req EXCEPT ![t] =
                    Respond([@ EXCEPT !.calls = Append(@, "index")],
                            code, NoError, NoRequirements)]
    /\ UNCHANGED <<enabled, price, ledger, purchased, side>>

\* what the retrieval service may answer: to a range request, the stored
\* chunks of the range it names; to a search, any chunks of the store.
RetrievalOutcomes(endpoint) ==
    IF endpoint = "chunks"
    THEN {[asked |-> s .. e, result |-> ChunkRange(s, e)] :
             s \in RangeIndices, e \in RangeIndices}
    ELSE {[asked |-> {}, result |-> found] : found \in SUBSET Chunks}

RetrieveWithoutEmptyCheck(t) ==
    /\ req[t].pc = "retrieve"
    /\ \E result \in SUBSET Chunks :
          req' = [req EXCEPT ![t] = [@ EXCEPT !.chunks = result, !.pc = "diff"]]
    /\ UNCHANGED <<enabled, price, ledger, purchased, side>>

\* retrieval_service.search / get_chunk_range returns; `if not result.chunks`.
Retrieve(t) ==
    /\ req[t].pc = "retrieve"
    /\ \E out \in RetrievalOutcomes(req[t].endpoint) :
          LET result == out.result
              r == [req[t] EXCEPT !.chunks = result, !.requested = out.asked,
                       !.covered = (result # {} /\ result \subseteq PurchasedBy(req[t].wallet))]
          IN req' = [req EXCEPT ![t] =
                       IF result = {} THEN Respond(r, 200, NoError, NoRequirements)
                       ELSE [r EXCEPT !.pc = "diff"]]
    /\ UNCHANGED <<enabled, price, ledger, purchased, side>>

\* filter_unpaid_chunks, the sum of the unpaid prices and the short-circuit.
\* search_docs formats params.doc_id in the short-circuit's log line, and
\* SearchRequest has no doc_id: AttributeError, caught as a 500.
Diff(t) ==
    /\ req[t].pc = "diff"
    /\ LET split == FilterUnpaidChunks(req[t].wallet, req[t].chunks, ledger)
           total == TotalPrice(split.unpaid, price)
           r     == [req[t] EXCEPT !.unpaid = split.unpaid, !.total_price = total,
                        !.owned = {c \in req[t].chunks : <<req[t].wallet, c>> \in ledger}]
       IN req' = [req EXCEPT ![t] =
                    IF total = 0
                    THEN IF r.endpoint = "search"
                         THEN Respond(r, 500, NoError, NoRequirements)
                         ELSE Respond(r, 200, NoError, NoRequirements)
                    ELSE [r EXCEPT !.pc = "verify"]]
    /\ UNCHANGED <<enabled, price, ledger, purchased, side>>

\* payment_handler.verify_payment.
VerifyPayment(t) ==
    /\ req[t].pc = "verify"
    /\ IF ~enabled
       THEN \E header \in {"absent", "wellformed"} :
              req' = [req EXCEPT ![t] = [@ EXCEPT !.pc = AfterVerify,
                                                  !.x_payment = header,
                                                  !.is_verified = FALSE,
                                                  !.requirements = 0,
                                                  !.payment_ctx =
                                                      PaymentContext(DummyPayment,
                                                                     DummyRequirements,
                                                                     FALSE)]]
       ELSE \E header \in HeaderKinds, reply \in VerifyReplies, reason \in Reasons :
              /\ (reply # "invalid") => reason = ""
              /\ (~VerifyCalled(header)) => reply = "valid"
              /\ LET reqs == CreatePaymentRequirements(req[t].total_price)
                     payment == DecodePayment(header)
                     payment_requirements ==
                         PaymentRequirements(req[t].total_price, Url(req[t].endpoint))
                     r    == [req[t] EXCEPT !.requirements = reqs,
                                 !.verified_with =
                                     IF VerifyCalled(header)
                                     THEN VerifyArguments(payment, payment_requirements)
                                     ELSE @,
                                 !.x_payment = header,
                                 !.verify_reply = IF VerifyCalled(header) THEN reply ELSE "none",
                                 !.invalid_reason = reason,
                                 !.calls = IF VerifyCalled(header)
                                           THEN Append(@, "verify:" \o reply)
                                           ELSE @]
                 IN req' = [req EXCEPT ![t] =
                              IF VerifyAccepts(header, reply)
                              THEN [r EXCEPT !.pc = AfterVerify, !.is_verified = TRUE,
                                             !.payment_ctx =
                                                 PaymentContext(payment,
                                                                payment_requirements,
                                                                TRUE)]
                              ELSE Respond(r, 402, VerifyError(header, reply, reason), reqs)]
    /\ UNCHANGED <<enabled, price, ledger, purchased, side>>

\* payment_handler.settle_payment.
SettlePayment(t) ==
    /\ req[t].pc = "settle"
    /\ IF ~enabled \/ ~req[t].is_verified
       THEN req' = [req EXCEPT ![t] = [@ EXCEPT !.pc = "record"]]
       ELSE \E reply \in SettleReplies, reason \in Reasons :
              /\ (reply # "failed") => reason = ""
              /\ LET r == [req[t] EXCEPT !.calls = Append(@, "settle:" \o reply),
                                          !.settled_with =
                                              SettleArguments(req[t].payment_ctx)]
                 IN req' = [req EXCEPT ![t] =
                              IF SettleSucceeded(reply)
                              THEN [r EXCEPT !.pc = "record", !.x_payment_response = TRUE]
                              ELSE Respond(r, 402, SettleError(reply, reason), NoRequirements)]
    /\ UNCHANGED <<enabled, price, ledger, purchased, side>>

\* purchase_service.record_purchases, then `return result`; an exception
\* of the commit is caught by the handler as a 500.
RecordPurchases(t) ==
    /\ req[t].pc = "record"
    /\ LET w   == req[t].wallet
           ids == UnpaidChunkIds(req[t])
       IN IF RecordSkipped(ids, enabled)
          THEN /\ req' = [req EXCEPT ![t] = Respond(@, 200, NoError, NoRequirements)]
               /\ UNCHANGED <<ledger, purchased>>
          ELSE LET out == InsertPurchases(w, ids, ledger)
                   r   == [req[t] EXCEPT !.calls = Append(@, "record")]
               IN IF out.raised
                  THEN /\ req' = [req EXCEPT ![t] = Respond(r, 500, NoError, NoRequirements)]
                       /\ ledger' = out.ledger
                       /\ UNCHANGED purchased
                  ELSE /\ ledger' = out.ledger
                       /\ purchased' = purchased \cup {<<w, c>> : c \in req[t].chunks}
                       /\ req' = [req EXCEPT ![t] =
                                    Respond([r EXCEPT !.wrote = ids], 200, NoError, NoRequirements)]
    /\ UNCHANGED <<enabled, price, side>>

Next ==
    \/ \E t \in Tasks : StartRequest(t)
    \/ \E t \in Tasks : AuthReject(t)
    \/ \E t \in Tasks : IndexDocuments(t)
    \/ \E t \in Tasks : Retrieve(t)
    \/ \E t \in Tasks : Diff(t)
    \/ \E t \in Tasks : VerifyPayment(t)
    \/ \E t \in Tasks : SettlePayment(t)
    \/ \E t \in Tasks : RecordPurchases(t)

Spec == Init /\ [][Next]_vars

(* ======================================================================= *)
(* Cancellation of a request task.                                         *)
(* ======================================================================= *)
\* the awaits of a handler, at which a cancelled task gets CancelledError.
Awaits == {"index", "retrieve", "diff", "verify", "settle", "record"}

\* the task of request t is cancelled while it waits: CancelledError is a
\* BaseException, so neither `except X402PaymentRequired` nor
\* `except Exception` catches it, and the handler runs no further line.
Cancel(t) ==
    /\ req[t].pc \in Awaits
    /\ req' = [req EXCEPT ![t] = [@ EXCEPT !.pc = "cancelled"]]
    /\ UNCHANGED <<enabled, price, ledger, purchased, side>>

\* the steps of the handler of request t once it has started.
Run(t) ==
    \/ IndexDocuments(t)
    \/ Retrieve(t)
    \/ Diff(t)
    \/ VerifyPayment(t)
    \/ SettlePayment(t)
    \/ RecordPurchases(t)

\* the gateway under the event loop's fairness alone: every handler whose
\* awaited call has returned or raised is resumed.
LiveSpec == Init /\ [][Next]_vars /\ \A t \in Tasks : WF_vars(Run(t))

CancelNext ==
    \/ Next
    \/ \E t \in Tasks : Cancel(t)

\* the event loop resumes every task that is ready to run.
CancelSpec == Init /\ [][CancelNext]_vars /\ \A t \in Tasks : WF_vars(Run(t))

(* ======================================================================= *)
(* Authorization header: the SDK's builder and the server's verifier.      *)
(* ======================================================================= *)
GatewayIdle ==
    /\ enabled = TRUE
    /\ price = [c \in Chunks |-> MaxPrice]
    /\ ledger = {}
    /\ purchased = {}
    /\ req = [t \in Tasks |-> Idle]

AuthInit ==
    /\ GatewayIdle
    /\ auth \in {[AuthIdle EXCEPT !.now = n] : n \in 0 .. (TicksPerSecond - 1)}
    /\ sdk = SdkIdle
    /\ chal = ChalIdle
    /\ StoreIdle
    /\ pay = PayIdle

\* the client builds its header.
AuthBuild ==
    /\ auth.pc = "idle"
    /\ \E k \in Keypairs, uri \in Uris, version \in Versions, age \in Ages :
          auth' = [auth EXCEPT !.pc = "built", !.keypair = k, !.uri = uri,
                      !.version = version, !.issued_at = auth.now - age,
                      !.header = BuildSolanaAuthorizationHeader(
                                     k, uri, version, auth.now - age)]
    /\ UNCHANGED <<gateway, sdk, chal, store, pay>>

\* the request is sent without an Authorization header.
AuthOmit ==
    /\ auth.pc = "idle"
    /\ auth' = [auth EXCEPT !.pc = "sent", !.tampered = "omitted"]
    /\ UNCHANGED <<gateway, sdk, chal, store, pay>>

\* somebody rewrites one field of the wire payload and keeps the signature.
AuthTamper ==
    /\ auth.pc = "built"
    /\ \/ \E v \in Versions \ {auth.header.msg.v} :
            auth' = [auth EXCEPT !.pc = "sent", !.tampered = "version",
                                 !.header.msg.v = v]
       \/ \E u \in Uris \ {auth.header.msg.uri} :
            auth' = [auth EXCEPT !.pc = "sent", !.tampered = "uri",
                                 !.header.msg.uri = u]
       \/ \E d \in ((0 - TicksPerSecond) .. TicksPerSecond) \ {0} :
            auth' = [auth EXCEPT !.pc = "sent", !.tampered = "issuedAt",
                                 !.header.msg.issuedAt = @ + d]
       \/ \E a \in (Addresses \cup {BadAddress}) \ {auth.header.address} :
            auth' = [auth EXCEPT !.pc = "sent", !.tampered = "address",
                                 !.header.address = a]
       \/ \E s \in Schemes \ {auth.header.scheme} :
            auth' = [auth EXCEPT !.pc = "sent", !.tampered = "scheme",
                                 !.header.scheme = s]
       \/ \E w \in WireForms \ {auth.header.wire} :
            auth' = [auth EXCEPT !.pc = "sent", !.tampered = "wire",
                                 !.header.wire = w]
    /\ UNCHANGED <<gateway, sdk, chal, store, pay>>

\* the header travels unchanged.
AuthSend ==
    /\ auth.pc = "built"
    /\ auth' = [auth EXCEPT !.pc = "sent"]
    /\ UNCHANGED <<gateway, sdk, chal, store, pay>>

\* the server resolves get_user_address for the request it received.
AuthVerify ==
    /\ auth.pc = "sent"
    /\ \E url \in Uris :
          auth' = [auth EXCEPT !.pc = "verified", !.request_uri = url,
                      !.result = GetUserAddress(auth.header, url, auth.now)]
    /\ UNCHANGED <<gateway, sdk, chal, store, pay>>

AuthNext == AuthBuild \/ AuthOmit \/ AuthTamper \/ AuthSend \/ AuthVerify

AuthSpec == AuthInit /\ [][AuthNext]_vars

(* ======================================================================= *)
(* The SDK client: X402RagClient._request.                                 *)
(* ======================================================================= *)
\* what `await self._client.request(...)` can give: a response with a
\* status (a 402 with an x402 JSON body, a JSON body without `accepts`, or
\* an HTML body), or a transport exception.
HttpStatuses == {200, 401, 402, 500}
Bodies == {"x402", "error-only", "html"}
HttpReplies ==
    {[kind |-> "response", status |-> st, body |-> "json"] : st \in HttpStatuses \ {402}}
        \cup {[kind |-> "response", status |-> 402, body |-> b] : b \in Bodies}
        \cup {[kind |-> k, status |-> 0, body |-> ""] : k \in {"timeout", "connect"}}

\* X402RagClient.__init__: _auth_keypair and _x402_payer are both set
\* exactly when config.x402_keypair_hex is given.
HasPayer(c) == c.keypair # ""

\* the end of _request for the last reply: raise_for_status and the except
\* clauses, or `return response.json(), payment_info`.
Surface(reply) ==
    IF reply.kind = "timeout" THEN [kind |-> "X402RagTimeoutError", status |-> 0]
    ELSE IF reply.kind = "connect" THEN [kind |-> "X402RagConnectionError", status |-> 0]
    ELSE IF reply.status >= 400
    THEN [kind |-> "X402RagHTTPError", status |-> reply.status]
    ELSE [kind |-> "return", status |-> reply.status]

RetriesOn402AlwaysRetries(c, reply) == reply.kind = "response" /\ reply.status = 402

\* `if response.status_code == 402 and self._x402_payer`
RetriesOn402(c, reply) ==
    reply.kind = "response" /\ reply.status = 402 /\ HasPayer(c)

\* response.json() and build_x_payment_from_402_json can go through only
\* for a JSON body with x402Version and accepts.
Buildable(reply) == reply.body = "x402"

SdkInit ==
    /\ GatewayIdle
    /\ auth = AuthIdle
    /\ sdk \in {[SdkIdle EXCEPT !.keypair = k] : k \in Keypairs \cup {""}}
    /\ chal = ChalIdle
    /\ StoreIdle
    /\ pay = PayIdle

\* _request up to the first response: the headers are built, the request
\* is sent and answered.
SdkRequest ==
    /\ sdk.pc = "idle"
    /\ \E e \in Endpoints, reply \in HttpReplies :
          LET headers == [NoHeaders EXCEPT !.Authorization =
                              IF sdk.keypair # ""
                              THEN BuildSolanaAuthorizationHeader(
                                       sdk.keypair, Url(e), 1, Now)
                              ELSE NoAuthorization]
              c == [sdk EXCEPT !.path = e, !.headers = headers,
                               !.sent = Append(@, headers),
                               !.replies = Append(@, reply)]
          IN sdk' = IF RetriesOn402(c, reply)
                    THEN [c EXCEPT !.pc = "build"]
                    ELSE [c EXCEPT !.pc = "done", !.outcome = Surface(reply)]
    /\ UNCHANGED <<gateway, auth, chal, store, pay>>

\* response.json() and build_x_payment_from_402_json: the X-PAYMENT header
\* is set, or an exception ends the call as X402RagConnectionError.
SdkBuildPayment ==
    /\ sdk.pc = "build"
    /\ \E built \in BOOLEAN :
          /\ built => Buildable(sdk.replies[1])
          /\ sdk' = IF built
                    THEN [sdk EXCEPT !.pc = "retry", !.built = @ + 1,
                                     !.headers.X_PAYMENT = "payment"]
                    ELSE [sdk EXCEPT !.pc = "done",
                             !.outcome = [kind |-> "X402RagConnectionError",
                                          status |-> 0]]
    /\ UNCHANGED <<gateway, auth, chal, store, pay>>

\* the retry with X-PAYMENT, and the end of _request.
SdkRetry ==
    /\ sdk.pc = "retry"
    /\ \E reply \in HttpReplies :
          sdk' = [sdk EXCEPT !.pc = "done",
                             !.sent = Append(@, sdk.headers),
                             !.replies = Append(@, reply),
                             !.payment_info = TRUE,
                             !.outcome = Surface(reply)]
    /\ UNCHANGED <<gateway, auth, chal, store, pay>>

SdkNext == SdkRequest \/ SdkBuildPayment \/ SdkRetry

SdkSpec == SdkInit /\ [][SdkNext]_vars

(* ======================================================================= *)
(* A 402 and the retry that answers it: the same request seen twice by     *)
(* verify_payment, with other requests and re-indexing in between.         *)
(* ======================================================================= *)
ChalInit ==
    /\ enabled = TRUE
    /\ price \in PriceTables
    /\ ledger = {}
    /\ purchased = {}
    /\ req = [t \in Tasks |-> Idle]
    /\ auth = AuthIdle
    /\ sdk = SdkIdle
    /\ chal = ChalIdle
    /\ StoreIdle
    /\ pay = PayIdle

\* the request arrives without X-PAYMENT: diff, total > 0, and verify_payment
\* answers 402 echoing the requirements it built.
ChalChallenge ==
    /\ chal.pc = "idle"
    /\ \E w \in Wallets, e \in RetrievalEndpoints, result \in (SUBSET Chunks) \ {{}} :
          LET split == FilterUnpaidChunks(w, result, ledger)
              total == TotalPrice(split.unpaid, price)
          IN /\ total > 0
             /\ chal' = [chal EXCEPT !.pc = "challenged", !.wallet = w,
                            !.endpoint = e, !.chunks = result,
                            !.first_unpaid = split.unpaid,
                            !.first_ledger = ledger, !.first_price = price,
                            !.echoed = PaymentRequirements(total, Url(e))]
    /\ UNCHANGED <<gateway, auth, sdk, store, pay>>

\* another request, of this wallet or another, records its purchases.
ChalPurchase ==
    /\ chal.pc \in {"idle", "challenged"}
    /\ \E w \in Wallets, ids \in (SUBSET Chunks) \ {{}} :
          LET out == InsertPurchases(w, ids, ledger) IN
          /\ ~out.raised
          /\ ledger' = out.ledger
    /\ UNCHANGED <<enabled, price, purchased, req, side>>

ChalReindexDropsPurchases ==
    /\ chal.pc \in {"idle", "challenged"}
    /\ \E p \in PriceTables \ {price} : price' = p
    /\ ledger' = {}
    /\ UNCHANGED <<enabled, purchased, req, side>>

\* the document is indexed again at another price.
ChalReindex ==
    /\ chal.pc \in {"idle", "challenged"}
    /\ \E p \in PriceTables \ {price} : price' = p
    /\ UNCHANGED <<enabled, ledger, purchased, req, side>>

\* the same request arrives again with X-PAYMENT: diff, the short-circuit
\* when nothing is owed, else verify_payment rebuilds the requirements.
ChalRetry ==
    /\ chal.pc = "challenged"
    /\ LET split == FilterUnpaidChunks(chal.wallet, chal.chunks, ledger)
           total == TotalPrice(split.unpaid, price)
       IN chal' = IF total = 0
                  THEN [chal EXCEPT !.pc = "retried",
                           !.retry_status = IF chal.endpoint = "search"
                                            THEN 500 ELSE 200]
                  ELSE [chal EXCEPT !.pc = "retried",
                           !.rebuilt = PaymentRequirements(total, Url(chal.endpoint))]
    /\ UNCHANGED <<gateway, auth, sdk, store, pay>>

ChalNext == ChalChallenge \/ ChalPurchase \/ ChalReindex \/ ChalRetry

ChalSpec == ChalInit /\ [][ChalNext]_vars

(* ======================================================================= *)
(* The vector store: the indexers that write it and the retrieval service  *)
(* that reads it.                                                          *)
(* ======================================================================= *)
Sources == {"/a.pdf", "http://b"}

\* the doc_type its indexer gives a source: "pdf" for a path, "web" for a URL.
DocType(source) == IF source = "/a.pdf" THEN "pdf" ELSE "web"

\* build_doc_id: sha256_hex(source).
BuildDocId(source) == <<"sha256", source>>

\* stable_chunk_uuid: UUID(sha1(f"{doc_id}:{chunk_idx}").hexdigest()[:32]).
StableChunkUuid(doc_id, chunk_idx) ==
    [uuid |-> <<"sha1", <<doc_id, ":", chunk_idx>>>>]

\* the doc_id values a client may ask for: those of the sources, and one
\* that no source has.
DocIds == {BuildDocId(src) : src \in Sources} \cup {<<"sha256", "nowhere">>}

\* what text_splitter.split_text may return: the chunks' lengths.
Splits == UNION {[1 .. n -> 1 .. MaxChars] : n \in 0 .. NumChunks}

\* price_usd, a float: here an exact fraction num / den of a dollar, in
\* steps of half a base unit.
PricesUsd ==
    {[num |-> n, den |-> 2 * 10 ^ usdc_decimals] : n \in 0 .. (2 * MaxPrice + 1)}

\* price_base_units = int(price_usd * (10**usdc_decimals))
PriceBaseUnits(price_usd) == (price_usd.num * 10 ^ usdc_decimals) \div price_usd.den

RECURSIVE SumSeq(_)
SumSeq(q) == IF q = <<>> THEN 0 ELSE Head(q) + SumSeq(Tail(q))

\* a chunk without a price in its metadata.
NoPrice == -1

\* chunk_price = int((chunk_chars / total_chars) * price_base_units)
\*               if total_chars > 0 else 0
\* (a float product in the source; the exact quotient here).
ChunkPrice(chunk_chars, total_chars, price_base_units) ==
    IF total_chars > 0 THEN (chunk_chars * price_base_units) \div total_chars ELSE 0

\* the loop of index_document over enumerate(chunks): one Document and one
\* id per element of the list it iterates.
PricedRows(chunks, source, doc_type, total_chars, price_base_units) ==
    [i \in 1 .. Len(chunks) |->
        [id |-> StableChunkUuid(BuildDocId(source), i - 1),
         source |-> source, doc_type |-> doc_type,
         doc_id |-> BuildDocId(source), chunk_id |-> i - 1,
         price |-> ChunkPrice(chunks[i], total_chars, price_base_units)]]

\* the loop of index_docs / index_web_pages: no price in the metadata.
PlainRows(chunks, source, doc_type) ==
    [i \in 1 .. Len(chunks) |->
        [id |-> StableChunkUuid(BuildDocId(source), i - 1),
         source |-> source, doc_type |-> doc_type,
         doc_id |-> BuildDocId(source), chunk_id |-> i - 1,
         price |-> NoPrice]]

Range(q) == {q[i] : i \in 1 .. Len(q)}

\* doc_store.aadd_documents(documents, ids): rows are replaced by id.
AddDocuments(rows, documents) ==
    {r \in rows : \A i \in 1 .. Len(documents) : documents[i].id # r.id}
        \cup Range(documents)

\* doc_store.aget_by_ids(ids): the rows that exist.
GetByIds(rows, ids) == {r \in rows : r.id \in Range(ids)}

\* `end_chunk: int | None = None` when the request names no end.
NoEndChunk == -1

\* k = min(k, self.settings.max_retrieved_chunks)
ClampK(k, max) == IF k < max THEN k ELSE max

ClampEndUnclamped(start_chunk, end_chunk, max) ==
    IF end_chunk = NoEndChunk THEN start_chunk ELSE end_chunk

\* get_chunk_range: the default of end_chunk and the clamp of the range.
ClampEnd(start_chunk, end_chunk, max) ==
    LET e == IF end_chunk = NoEndChunk THEN start_chunk ELSE end_chunk
        requested_count == e - start_chunk + 1
    IN IF requested_count > max THEN start_chunk + max - 1 ELSE e

\* chunk_ids = [stable_chunk_uuid(doc_id, i)
\*              for i in range(start_chunk, end_chunk + 1)]
RangeChunkIds(doc_id, start_chunk, end_chunk) ==
    [i \in 1 .. (end_chunk - start_chunk + 1) |->
        StableChunkUuid(doc_id, start_chunk + i - 1)]

LedgerChunkIdsOneBased(chunks) ==
    {StableChunkUuid(c.doc_id, c.chunk_id + 1) : c \in chunks}

\* the ids the handlers hand to the ledger, for the diff and for the
\* record: stable_chunk_uuid(chunk.metadata.doc_id, chunk.metadata.chunk_id).
LedgerChunkIds(chunks) ==
    {StableChunkUuid(c.doc_id, c.chunk_id) : c \in chunks}

\* index_document, line 40: `chunks: list[Document] = []` binds the name
\* chunks, until then the splitter's output, to a new empty list; the loop
\* that follows enumerates that list.
ReboundChunks(chunks) == <<>>

StoreInit ==
    /\ GatewayIdle
    /\ auth = AuthIdle
    /\ sdk = SdkIdle
    /\ chal = ChalIdle
    /\ doc_store = {}
    /\ max_retrieved_chunks \in 1 .. NumChunks
    /\ op = NoOp
    /\ pay = PayIdle

\* BaseIndexService.index_document
IndexDocument ==
    /\ op = NoOp
    /\ \E source \in Sources, content \in Splits, price_usd \in PricesUsd :
          LET doc_id == BuildDocId(source)
              doc_type == DocType(source)
              chunks == content
              total_chars == SumSeq(chunks)
              price_base_units == PriceBaseUnits(price_usd)
              documents == PricedRows(ReboundChunks(chunks), source, doc_type,
                                      total_chars, price_base_units)
          IN IF chunks = <<>>
             THEN /\ op' = [NoOp EXCEPT !.kind = "index_document",
                               !.source = source, !.doc_id = doc_id]
                  /\ UNCHANGED doc_store
             ELSE /\ doc_store' = AddDocuments(doc_store, documents)
                  /\ op' = [NoOp EXCEPT !.kind = "index_document",
                               !.source = source, !.doc_id = doc_id,
                               !.n_split = Len(chunks),
                               !.chunk_chars = chunks,
                               !.total_chars = total_chars,
                               !.price_base_units = price_base_units,
                               !.written = documents,
                               !.chunks_count = Len(documents)]
    /\ UNCHANGED <<gateway, auth, sdk, chal, max_retrieved_chunks, pay>>

\* DocIndexService.index_docs / WebIndexService.index_web_pages, one source.
IndexDocs ==
    /\ op = NoOp
    /\ \E source \in Sources, content \in Splits :
          LET documents == PlainRows(content, source, DocType(source)) IN
          IF content = <<>>
          THEN /\ op' = [NoOp EXCEPT !.kind = "index_docs", !.source = source]
               /\ UNCHANGED doc_store
          ELSE /\ doc_store' = AddDocuments(doc_store, documents)
               /\ op' = [NoOp EXCEPT !.kind = "index_docs", !.source = source,
                            !.doc_id = BuildDocId(source),
                            !.n_split = Len(content),
                            !.chunk_chars = content, !.written = documents,
                            !.chunks_count = Len(documents)]
    /\ UNCHANGED <<gateway, auth, sdk, chal, max_retrieved_chunks, pay>>

\* RetrievalService.search, and the ledger ids the handler derives.
StoreSearch ==
    /\ op = NoOp
    /\ \E k \in 1 .. (NumChunks + 1), docs \in SUBSET doc_store :
          /\ Cardinality(docs) <= ClampK(k, max_retrieved_chunks)
          /\ op' = [NoOp EXCEPT !.kind = "search", !.k = k, !.docs = docs,
                       !.ledger_ids = LedgerChunkIds(docs)]
    /\ UNCHANGED <<gateway, auth, sdk, chal, doc_store, max_retrieved_chunks, pay>>

\* RetrievalService.get_chunk_range, and the ledger ids the handler derives.
StoreGetChunkRange ==
    /\ op = NoOp
    /\ \E doc_id \in DocIds, start_chunk \in 0 .. NumChunks,
          end_chunk \in {NoEndChunk} \cup (0 .. NumChunks) :
          LET e == ClampEnd(start_chunk, end_chunk, max_retrieved_chunks)
              chunk_ids == RangeChunkIds(doc_id, start_chunk, e)
              docs == GetByIds(doc_store, chunk_ids)
          IN op' = [NoOp EXCEPT !.kind = "get_chunk_range", !.doc_id = doc_id,
                       !.start_chunk = start_chunk, !.end_chunk = end_chunk,
                       !.chunk_ids = chunk_ids, !.docs = docs,
                       !.ledger_ids = LedgerChunkIds(docs)]
    /\ UNCHANGED <<gateway, auth, sdk, chal, doc_store, max_retrieved_chunks, pay>>

\* the operation has returned; the services take the next call.
StoreReturn ==
    /\ op # NoOp
    /\ op' = NoOp
    /\ UNCHANGED <<gateway, auth, sdk, chal, doc_store, max_retrieved_chunks, pay>>

StoreNext ==
    IndexDocument \/ IndexDocs \/ StoreSearch \/ StoreGetChunkRange \/ StoreReturn

StoreSpec == StoreInit /\ [][StoreNext]_vars

(* ======================================================================= *)
(* The ledger's read side: the split of a result and the paid subset.      *)
(* ======================================================================= *)
\* the chunks a result list may hold, as far as the split reads them.
ResultChunks ==
    {[doc_id |-> BuildDocId("/a.pdf"), chunk_id |-> c] : c \in Chunks}

\* result lists: any order, repetitions included.
ResultLists == UNION {[1 .. n -> ResultChunks] : n \in 0 .. MaxResults}

\* chunk_ids = [stable_chunk_uuid(chunk.metadata.doc_id,
\*                                chunk.metadata.chunk_id) for chunk in chunks]
ChunkIdsOf(chunks) ==
    [i \in 1 .. Len(chunks) |->
        StableChunkUuid(chunks[i].doc_id, chunks[i].chunk_id)]

\* the loop over zip(chunks, chunk_ids): each chunk is appended to
\* paid_chunks or to unpaid_chunks.
RECURSIVE SplitLoop(_, _, _, _)
SplitLoop(chunks, chunk_ids, paid_ids, lists) ==
    IF chunks = <<>> THEN lists
    ELSE SplitLoop(Tail(chunks), Tail(chunk_ids), paid_ids,
                   IF Head(chunk_ids) \in paid_ids
                   THEN [lists EXCEPT !.paid = Append(@, Head(chunks))]
                   ELSE [lists EXCEPT !.unpaid = Append(@, Head(chunks))])

Reversed(q) == [i \in 1 .. Len(q) |-> q[Len(q) + 1 - i]]

FilterUnpaidChunksListPrepends(user_address, chunks, led) ==
    LET chunk_ids == ChunkIdsOf(chunks)
        paid_ids == PaidChunkIds(user_address, Range(chunk_ids), led)
        lists == SplitLoop(chunks, chunk_ids, paid_ids,
                           [unpaid |-> <<>>, paid |-> <<>>])
    IN [unpaid |-> Reversed(lists.unpaid), paid |-> Reversed(lists.paid)]

\* PurchaseService.filter_unpaid_chunks on the list it is given.
FilterUnpaidChunksList(user_address, chunks, led) ==
    IF chunks = <<>> THEN [unpaid |-> <<>>, paid |-> <<>>]
    ELSE LET chunk_ids == ChunkIdsOf(chunks)
             paid_ids == PaidChunkIds(user_address, Range(chunk_ids), led)
         IN SplitLoop(chunks, chunk_ids, paid_ids,
                      [unpaid |-> <<>>, paid |-> <<>>])

\* no call of the purchase service is running.
NoSplit == [unpaid |-> <<>>, paid |-> <<>>]

\* the chunk_purchases table holds any rows (user_address, chunk_id); the
\* chunk_id column holds the stable ids themselves.
SplitInit ==
    /\ enabled = TRUE
    /\ price = [c \in Chunks |-> MaxPrice]
    /\ ledger \in SUBSET (Wallets \X Range(ChunkIdsOf(
                     [i \in 1 .. NumChunks |->
                         [doc_id |-> BuildDocId("/a.pdf"), chunk_id |-> i - 1]])))
    /\ purchased = {}
    /\ req = [t \in Tasks |-> Idle]
    /\ SideIdle

\* a handler calls filter_unpaid_chunks(user_address, result.chunks).
SplitCall ==
    /\ op = NoOp
    /\ \E w \in Wallets, chunks \in ResultLists :
          op' = [kind |-> "filter_unpaid_chunks", user_address |-> w,
                 chunks |-> chunks, chunk_ids |-> ChunkIdsOf(chunks),
                 lists |-> FilterUnpaidChunksList(w, chunks, ledger),
                 paid_ids |-> {}]
    /\ UNCHANGED <<gateway, auth, sdk, chal, doc_store, max_retrieved_chunks, pay>>

\* get_paid_chunk_ids(user_address, chunk_ids) is called.
PaidSubsetCall ==
    /\ op = NoOp
    /\ \E w \in Wallets, chunks \in ResultLists :
          op' = [kind |-> "get_paid_chunk_ids", user_address |-> w,
                 chunks |-> <<>>, chunk_ids |-> ChunkIdsOf(chunks),
                 lists |-> NoSplit,
                 paid_ids |-> PaidChunkIds(w, Range(ChunkIdsOf(chunks)), ledger)]
    /\ UNCHANGED <<gateway, auth, sdk, chal, doc_store, max_retrieved_chunks, pay>>

\* the call has returned.
SplitReturn ==
    /\ op # NoOp
    /\ op' = NoOp
    /\ UNCHANGED <<gateway, auth, sdk, chal, doc_store, max_retrieved_chunks, pay>>

SplitNext == SplitCall \/ PaidSubsetCall \/ SplitReturn

SplitSpec == SplitInit /\ [][SplitNext]_vars

(* ---- the SDK's payment builder ---------------------------------------- *)
\* Two X402RagClient._request calls have each received a 402; every await
\* of build_x_payment_header and ensure_ata_exists is a step, and every RPC
\* either answers or raises. The chain lands submitted transactions on its
\* own schedule (send_raw_transaction is not confirmed).
PayInit ==
    /\ GatewayIdle
    /\ auth = AuthIdle
    /\ sdk = SdkIdle
    /\ chal = ChalIdle
    /\ StoreIdle
    /\ pay \in
        {[accounts |-> a, submitted |-> <<>>,
          proc |-> [p \in Payers |-> PayerIdle(k[p])]] :
            a \in SUBSET {GetAssociatedTokenAddress(w, X402Settings.usdc_address) :
                            w \in Wallets},
            k \in [Payers -> Keypairs]}

\* the except clause of _request: the call ends with the SDK's exception.
Raised(rec, kind) ==
    [rec EXCEPT !.pc = "done",
                !.outcome = [kind |-> kind, payment_info |-> NoPaymentInfo]]

PayFrame == UNCHANGED <<gateway, auth, sdk, chal, store>>

\* client.py 132-142 and x402.py 175-98: the 402 body is read, the first
\* entry of accepts selected and validated.
PayStart(p) ==
    /\ pay.proc[p].pc = "idle"
    /\ \E requirements \in Accepted :
        LET rec == [pay.proc[p] EXCEPT !.requirements = requirements]
            error == ValidateRequirements(requirements)
        IN  pay' = [pay EXCEPT !.proc[p] =
                IF error # "" THEN Raised(rec, "X402RagConnectionError")
                ELSE [rec EXCEPT
                        !.pc = "get_account_info",
                        !.paid_amount = IntOf(requirements.maxAmountRequired),
                        !.pay_to = requirements.payTo]]
    /\ PayFrame

\* ata.py 21-28: rpc.get_account_info(ata).
PayGetAccountInfo(p) ==
    /\ pay.proc[p].pc = "get_account_info"
    /\ \E answers \in BOOLEAN :
        LET me == pay.proc[p]
            ata == GetAssociatedTokenAddress(Pubkey(me.keypair),
                                             me.requirements.asset)
            rec == [me EXCEPT !.trace = Append(@, "get_account_info")]
        IN  pay' = [pay EXCEPT !.proc[p] =
                IF ~answers THEN Raised(rec, "X402RagConnectionError")
                ELSE IF ata \in pay.accounts
                    THEN [rec EXCEPT !.info = "exists", !.src_ata = ata,
                                     !.pc = "build"]
                ELSE [rec EXCEPT !.info = "missing", !.pc = "create_blockhash"]]
    /\ PayFrame

\* ata.py 31-38: rpc.get_latest_blockhash() for the create transaction.
PayCreateBlockhash(p) ==
    /\ pay.proc[p].pc = "create_blockhash"
    /\ \E answers \in BOOLEAN :
        LET rec == [pay.proc[p] EXCEPT !.trace = Append(@, "get_latest_blockhash")]
        IN  pay' = [pay EXCEPT !.proc[p] =
                IF ~answers THEN Raised(rec, "X402RagConnectionError")
                ELSE [rec EXCEPT !.pc = "send_create"]]
    /\ PayFrame

\* ata.py 41-54: the create transaction is signed and sent, not confirmed.
PaySendCreate(p) ==
    /\ pay.proc[p].pc = "send_create"
    /\ \E answers \in BOOLEAN :
        LET me == pay.proc[p]
            owner == Pubkey(me.keypair)
            mint == me.requirements.asset
            rec == [me EXCEPT !.trace = Append(@, "send_raw_transaction")]
        IN  IF ~answers
            THEN pay' = [pay EXCEPT
                    !.proc[p] = Raised(rec, "X402RagConnectionError")]
            ELSE pay' = [pay EXCEPT
                    !.submitted = Append(@,
                        [call |-> p,
                         tx |-> CreateAtaTransaction(me.keypair, owner, mint)]),
                    !.proc[p] = [rec EXCEPT
                        !.src_ata = GetAssociatedTokenAddress(owner, mint),
                        !.pc = "build"]]
    /\ PayFrame

\* x402.py 113-158: rpc.get_latest_blockhash(), then the transaction and
\* the payload are built.
PayBuild(p) ==
    /\ pay.proc[p].pc = "build"
    /\ \E answers \in BOOLEAN :
        LET me == pay.proc[p]
            rec == [me EXCEPT !.trace = Append(@, "get_latest_blockhash")]
        IN  pay' = [pay EXCEPT !.proc[p] =
                IF ~answers THEN Raised(rec, "X402RagConnectionError")
                ELSE [rec EXCEPT
                        !.trace = Append(@, "build"),
                        !.x_payment = PaymentPayload(1, me.requirements.network,
                            PaymentTransaction(me.keypair, me.requirements,
                                               me.src_ata)),
                        !.pc = "retry"]]
    /\ PayFrame

\* client.py 144-157: the retry carries X-PAYMENT; payment_info is set,
\* then raise_for_status decides between the return and the exception.
PayRetry(p) ==
    /\ pay.proc[p].pc = "retry"
    /\ \E status \in {200, 402, 500} :
        LET me == pay.proc[p]
            payment_info == PaymentInfo(me.paid_amount, me.pay_to)
        IN  pay' = [pay EXCEPT !.proc[p] =
                [me EXCEPT
                    !.trace = Append(@, "retry"),
                    !.status = status,
                    !.payment_info = payment_info,
                    !.outcome =
                        IF status \in 200 .. 299
                        THEN [kind |-> "return", payment_info |-> payment_info]
                        ELSE [kind |-> "X402RagHTTPError",
                              payment_info |-> NoPaymentInfo],
                    !.pc = "done"]]
    /\ PayFrame

\* the chain executes a submitted create_idempotent instruction.
PayLand ==
    /\ \E i \in DOMAIN pay.submitted :
        LET ix == pay.submitted[i].tx.instructions[1]
            ata == GetAssociatedTokenAddress(ix.owner, ix.mint)
        IN  /\ ata \notin pay.accounts
            /\ pay' = [pay EXCEPT !.accounts = @ \cup {ata}]
    /\ PayFrame

PayNext ==
    \/ \E p \in Payers :
        \/ PayStart(p)
        \/ PayGetAccountInfo(p)
        \/ PayCreateBlockhash(p)
        \/ PaySendCreate(p)
        \/ PayBuild(p)
        \/ PayRetry(p)
    \/ PayLand

PaySpec == PayInit /\ [][PayNext]_vars

(* ---- properties ------------------------------------------------------- *)
Done(t) == req[t].pc = "done"

Has(t, ev) == \E i \in 1 .. Len(req[t].calls) : req[t].calls[i] = ev

Before(t, a, b) ==
    \A j \in 1 .. Len(req[t].calls) :
        req[t].calls[j] = b => \E i \in 1 .. (j - 1) : req[t].calls[i] = a

PastDiff(t) == req[t].pc \in {"verify", "settle", "record", "done"} /\ req[t].chunks # {}

\* the request verified and then settled a payment whose requirement
\* covers what the diff found owed.
SettledFor(t) ==
    /\ Has(t, "verify:valid")
    /\ Has(t, "settle:success")
    /\ Before(t, "verify:valid", "settle:success")
    /\ req[t].requirements >= req[t].total_price

\* C1: once a wallet has completed a paid 200 retrieval returning the chunks
\* S, every later retrieval by that wallet whose result is a non-empty subset
\* of S finds total_owed = 0, calls the facilitator neither for verify nor for
\* settle, and is never answered 402.
C1_NoDoubleCharge ==
    \A t \in Tasks :
        (req[t].covered /\ PastDiff(t)) =>
            /\ req[t].total_price = 0
            /\ req[t].calls = <<>>
            /\ req[t].status # 402
            /\ Done(t)

C1_Witness ==
    \E t \in Tasks :
        /\ req[t].covered /\ Done(t) /\ req[t].status = 200
        /\ enabled /\ SumPrices(req[t].chunks, price) > 0

\* C2: on both retrieval endpoints, a non-empty result whose diff finds
\* total_owed = 0 is answered 200 with no ledger write, no facilitator call
\* and no X-PAYMENT-RESPONSE header.
C2_ShortCircuitIs200 ==
    \A t \in Tasks :
        (Done(t) /\ req[t].chunks # {} /\ req[t].total_price = 0) =>
            /\ req[t].status = 200
            /\ req[t].wrote = {}
            /\ req[t].calls = <<>>
            /\ ~req[t].x_payment_response

\* C3 (as claimed): in every configuration, a 2xx retrieval response has
\* total_owed = 0 or a verified-then-settled payment with
\* maxAmountRequired >= total_owed.
C3_Every2xxFreeOrSettled ==
    \A t \in Tasks :
        (Done(t) /\ req[t].status = 200) =>
            (req[t].total_price = 0 \/ SettledFor(t))

\* C3 (amended): with x402 enabled, a 2xx retrieval response has
\* total_owed = 0 or a verified-then-settled payment with
\* maxAmountRequired >= total_owed.
C3_Every2xxFreeOrSettledWhenEnabled ==
    enabled => C3_Every2xxFreeOrSettled

C3_Witness ==
    \E t \in Tasks :
        /\ enabled /\ Done(t) /\ req[t].status = 200
        /\ req[t].total_price > 0 /\ req[t].x_payment_response

\* the rows of the request's unpaid chunks are in the ledger, and they are
\* the only rows the request inserted.
CommittedExactlyUnpaid(t) ==
    /\ req[t].wrote = req[t].unpaid
    /\ \A c \in req[t].unpaid : <<req[t].wallet, c>> \in ledger

\* C4 (as claimed): whenever a 2xx retrieval response is produced, exactly
\* the chunks the diff classified as unpaid are in the wallet's ledger
\* afterwards, and the request added no other row.
C4_AtomicCommit ==
    \A t \in Tasks :
        (Done(t) /\ req[t].status = 200) => CommittedExactlyUnpaid(t)

\* C4 (amended): a 2xx response to a request with total_owed > 0 on a server
\* with x402 enabled leaves exactly the unpaid chunks of that request in the
\* wallet's ledger, written by that request; every other 2xx response (total
\* owed 0, or x402 disabled) writes no row.
C4_AtomicCommitWhenCharged ==
    \A t \in Tasks :
        (Done(t) /\ req[t].status = 200) =>
            IF enabled /\ req[t].total_price > 0
            THEN CommittedExactlyUnpaid(t)
            ELSE req[t].wrote = {}

C4_Witness ==
    \E t \in Tasks :
        /\ enabled /\ Done(t) /\ req[t].status = 200
        /\ req[t].total_price > 0
        /\ \E c \in req[t].unpaid : price[c] = 0

\* C5: a settle call that returns success=false or raises ends the request
\* with a 402 whose error starts with "Settlement failed:", without calling
\* record_purchases and without the request writing any ledger row.
C5_SettleFailure ==
    \A t \in Tasks :
        (Has(t, "settle:failed") \/ Has(t, "settle:raises")) =>
            /\ Done(t)
            /\ req[t].status = 402
            /\ req[t].error # NoError
            /\ req[t].error[1] = "Settlement failed: "
            /\ ~Has(t, "record")
            /\ req[t].wrote = {}

C5_Witness ==
    \E t \in Tasks : Done(t) /\ Has(t, "settle:failed") /\ req[t].error[2] = "insufficient funds"

\* the request carried an X-PAYMENT header that verify_payment turned down.
VerifyFailed(t) ==
    /\ enabled
    /\ req[t].x_payment # "unread"
    /\ ~(req[t].x_payment = "wellformed" /\ req[t].verify_reply = "valid")

\* C6: when verification fails (header absent or undecodable, scheme/network
\* mismatch, facilitator /verify raising, or is_valid = false) the request
\* ends with a 402 carrying the error text (the invalid_reason when the
\* facilitator gave one), settle is never called and the request writes
\* nothing to the ledger.
C6_VerifyFailure ==
    \A t \in Tasks :
        VerifyFailed(t) =>
            /\ Done(t)
            /\ req[t].status = 402
            /\ req[t].error # NoError
            /\ (req[t].verify_reply = "invalid" /\ req[t].invalid_reason # "") =>
                   req[t].error = <<"Invalid payment: ", req[t].invalid_reason>>
            /\ \A r \in SettleReplies : ~Has(t, "settle:" \o r)
            /\ ~Has(t, "record")
            /\ req[t].wrote = {}

C6_Witness ==
    \E t \in Tasks :
        /\ VerifyFailed(t) /\ req[t].verify_reply = "invalid"
        /\ req[t].error = <<"Invalid payment: ", "insufficient funds">>

\* the 402 challenge for a request without X-PAYMENT: one requirement whose
\* maxAmountRequired is the price of the returned chunks the wallet did not
\* own when the diff ran; no facilitator call, no ledger write.
Challenged(t) ==
    /\ Done(t)
    /\ req[t].status = 402
    /\ req[t].accepts = SumPrices(req[t].chunks \ req[t].owned, price)
    /\ req[t].error = <<"No X-PAYMENT header provided", "">>
    /\ req[t].calls = <<>>
    /\ req[t].wrote = {}

\* C7 (as claimed): a retrieval with total_owed > 0 and no X-PAYMENT header
\* is answered by the 402 challenge for exactly the unowned chunks.
C7_Challenge ==
    \A t \in Tasks :
        (req[t].total_price > 0 /\ req[t].x_payment = "absent") => Challenged(t)

\* C7 (amended): with x402 enabled, a retrieval with total_owed > 0 and no
\* X-PAYMENT header is answered by the 402 challenge for exactly the unowned
\* chunks.
C7_ChallengeWhenEnabled ==
    enabled => C7_Challenge

C7_Witness ==
    \E t \in Tasks :
        /\ enabled /\ req[t].x_payment = "absent" /\ Done(t)
        /\ req[t].owned # {} /\ req[t].accepts > 0
        /\ req[t].accepts < SumPrices(req[t].chunks, price)

\* C8: within a request, settle is called only after verify returned
\* is_valid = true and the ledger write is issued only after settle returned
\* success: no ledger write before settle, no settle before verify.
C8_VerifySettleRecordOrder ==
    \A t \in Tasks :
        /\ \A r \in SettleReplies : Before(t, "verify:valid", "settle:" \o r)
        /\ Before(t, "settle:success", "record")
        /\ Has(t, "record") => Before(t, "verify:valid", "settle:success")

C8_Witness ==
    \E t \in Tasks : req[t].calls = <<"verify:valid", "settle:success", "record">>

\* C9: record(wallet, chunk_ids) completes without error whatever rows the
\* ledger already holds, and leaves every (wallet, chunk_id) in the ledger.
C9_RecordIsIdempotent ==
    \A t \in Tasks :
        (enabled /\ Has(t, "record")) =>
            /\ req[t].status # 500
            /\ \A c \in req[t].unpaid : <<req[t].wallet, c>> \in ledger

\* C10: two concurrent retrievals of one wallet that both settled a payment
\* for a common unpaid chunk both finish with a 2xx.
C10_ConcurrentBothSucceed ==
    \A t \in Tasks, u \in Tasks :
        ( /\ t # u /\ Done(t) /\ Done(u)
          /\ req[t].wallet = req[u].wallet
          /\ Has(t, "settle:success") /\ Has(u, "settle:success")
          /\ req[t].unpaid \cap req[u].unpaid # {} ) =>
            (req[t].status = 200 /\ req[u].status = 200)

(* ---- authorization header --------------------------------------------- *)
\* everything but the age of the header passes the verifier's checks.
OtherwiseValid(h, url) ==
    /\ h.scheme = "Solana"
    /\ h.wire = "ok"
    /\ h.msg.uri = url
    /\ h.address \in Addresses
    /\ VerifyKeyVerify(h.address, CanonicalString(h.msg), h.sig)

InWindow(age) == (0 - Skew) <= age /\ age <= Window

\* C11: an otherwise valid header is accepted exactly when
\* -skew <= now - issuedAt <= ttl + skew (both ends inclusive); one issued
\* further in the future is refused with "issued_at is in the future", an
\* older one with "message expired".
C11_AuthFreshness ==
    (auth.pc = "verified" /\ OtherwiseValid(auth.header, auth.request_uri)) =>
        LET age == auth.now - auth.header.msg.issuedAt IN
        /\ (auth.result.status = 0) <=> InWindow(age)
        /\ age < 0 - Skew =>
              /\ auth.result.status = 401
              /\ auth.result.detail = "Authentication failed: issued_at is in the future"
        /\ age > Window =>
              /\ auth.result.status = 401
              /\ auth.result.detail = "Authentication failed: message expired"

\* a header exactly ttl + skew old is accepted.
C11_Witness ==
    /\ auth.pc = "verified"
    /\ OtherwiseValid(auth.header, auth.request_uri)
    /\ auth.now - auth.header.msg.issuedAt = Window
    /\ auth.result.status = 0

\* the payload was rewritten in a way that changes a canonical line or the
\* address.
CanonicalTamper ==
    \/ auth.tampered \in {"version", "uri", "address"}
    \/ /\ auth.tampered = "issuedAt"
       /\ IsoUtc(auth.header.msg.issuedAt) # IsoUtc(auth.issued_at)

\* C12 as stated: a header built for any (v, uri, issuedAt) with issuedAt
\* inside the freshness window verifies for the request URL uri and yields
\* the keypair's address; a payload whose version, uri, issuedAt (to the
\* second) or address was changed without re-signing is refused.
C12_RoundTrip ==
    auth.pc = "verified" =>
        /\ (/\ auth.tampered = ""
            /\ auth.request_uri = auth.uri
            /\ InWindow(auth.now - auth.issued_at)) =>
              /\ auth.result.status = 0
              /\ auth.result.address = Pubkey(auth.keypair)
        /\ CanonicalTamper => auth.result.status = 401

\* C12 amended: the same, for an issuedAt whose value truncated to whole
\* seconds (the value the header carries) is inside the freshness window.
C12_RoundTripOfTruncated ==
    auth.pc = "verified" =>
        /\ (/\ auth.tampered = ""
            /\ auth.request_uri = auth.uri
            /\ InWindow(auth.now - IsoUtc(auth.issued_at))) =>
              /\ auth.result.status = 0
              /\ auth.result.address = Pubkey(auth.keypair)
        /\ CanonicalTamper => auth.result.status = 401

\* a header built for an instant with a sub-second part has verified.
C12_Witness ==
    /\ auth.pc = "verified"
    /\ auth.tampered = ""
    /\ auth.issued_at % TicksPerSecond # 0
    /\ auth.request_uri = auth.uri
    /\ auth.result.status = 0
    /\ auth.result.address = Pubkey(auth.keypair)

(* ---- the authorization gate of the /docs routes ------------------------ *)
\* the header passes every check of the verifier for this route, now.
ValidFor(h, e) ==
    /\ h # NoAuthorization
    /\ OtherwiseValid(h, Url(e))
    /\ Freshness(h.msg.issuedAt, Now) = ""

\* the handler body has not run: no store, ledger or facilitator access.
Untouched(r) ==
    /\ r.calls = <<>>
    /\ r.chunks = {} /\ r.unpaid = {} /\ r.owned = {}
    /\ r.x_payment = "unread"
    /\ r.requirements = NoRequirements
    /\ r.wrote = {}

\* C13: on each of the four /docs routes a request without a header, or
\* with one that is not valid for exactly this URL, is answered 401 with
\* nothing read, written or sent to the facilitator; a request that got
\* further carries a valid header, and the wallet of its ledger diff and
\* of the rows it records is the address that header verified to.
C13_AuthGate ==
    \A t \in Tasks :
        LET r == req[t] IN
        r.pc # "idle" =>
            /\ (r.status = 401) <=> ~ValidFor(r.authorization, r.endpoint)
            /\ r.status = 401 => (r.pc = "done" /\ Untouched(r))
            /\ r.status # 401 => r.wallet = r.authorization.sig.signer
            /\ r.owned \subseteq {c \in Chunks : <<r.wallet, c>> \in ledger}
            /\ \A c \in r.wrote : <<r.wallet, c>> \in ledger

\* one request was refused for a header signed for another route, another
\* recorded purchases.
C13_Witness ==
    \E t \in Tasks, u \in Tasks :
        /\ req[t].status = 401
        /\ req[t].authorization # NoAuthorization
        /\ Freshness(req[t].authorization.msg.issuedAt, Now) = ""
        /\ req[t].authorization.msg.uri # Url(req[t].endpoint)
        /\ req[u].wrote # {}

(* ---- the SDK client ---------------------------------------------------- *)
First402 == Len(sdk.replies) >= 1 /\ sdk.replies[1].kind = "response"
            /\ sdk.replies[1].status = 402

\* at most two requests; a 402 answer to the retry, and a 402 answer to a
\* client without a payer, are raised as X402RagHTTPError(402) with nothing
\* further built or sent.
SdkAtMostTwo ==
    /\ Len(sdk.sent) <= 2 /\ sdk.built <= 1
    /\ (sdk.pc = "done" /\ Len(sdk.replies) = 2 /\ sdk.replies[2].kind = "response"
           /\ sdk.replies[2].status = 402) =>
          /\ sdk.outcome = [kind |-> "X402RagHTTPError", status |-> 402]
          /\ Len(sdk.sent) = 2 /\ sdk.built = 1
    /\ (sdk.pc = "done" /\ First402 /\ ~HasPayer(sdk)) =>
          /\ sdk.outcome = [kind |-> "X402RagHTTPError", status |-> 402]
          /\ Len(sdk.sent) = 1 /\ sdk.built = 0

\* the call retried exactly once, with X-PAYMENT and the Authorization
\* header of the first request.
RetriedOnce ==
    /\ Len(sdk.sent) = 2 /\ sdk.built = 1
    /\ sdk.sent[1].X_PAYMENT = "" /\ sdk.sent[2].X_PAYMENT # ""
    /\ sdk.sent[2].Authorization = sdk.sent[1].Authorization
    /\ sdk.sent[2].Authorization # NoAuthorization

\* C14 as stated: at most two requests per call; with a payer, every first
\* 402 is followed by one built X-PAYMENT and exactly one retry that keeps
\* the Authorization header; a 402 on the retry, and a 402 without a payer,
\* are surfaced without further payment or request.
C14_RetryOnce ==
    /\ SdkAtMostTwo
    /\ (sdk.pc = "done" /\ First402 /\ HasPayer(sdk)) => RetriedOnce

\* C14 amended: the retry follows when the X-PAYMENT header could be built;
\* when building it raises, nothing more is sent and the call ends with
\* X402RagConnectionError.
C14_RetryOnceWhenBuilt ==
    /\ SdkAtMostTwo
    /\ (sdk.pc = "done" /\ First402 /\ HasPayer(sdk)) =>
          \/ RetriedOnce
          \/ /\ sdk.built = 0 /\ Len(sdk.sent) = 1
             /\ sdk.outcome = [kind |-> "X402RagConnectionError", status |-> 0]

\* a call whose retry was answered 402 as well.
C14_Witness ==
    /\ sdk.pc = "done" /\ First402 /\ HasPayer(sdk) /\ RetriedOnce
    /\ sdk.replies[2].kind = "response" /\ sdk.replies[2].status = 402
    /\ sdk.outcome = [kind |-> "X402RagHTTPError", status |-> 402]

OwedUnchanged ==
    \A c \in chal.first_unpaid :
        <<chal.wallet, c>> \notin ledger /\ price[c] = chal.first_price[c]

RECURSIVE SumPrice(_)
SumPrice(rows) ==
    IF rows = <<>> THEN 0 ELSE Head(rows).price + SumPrice(Tail(rows))

Indexed == op.kind = "index_document" /\ op.n_split >= 1

\* C16: a document split into N chunks is stored as N chunks whose prices
\* are integers price_i = floor(chars_i * total_base / total_chars) >= 0,
\* with sum(price_i) <= total_base and total_base - sum(price_i) <= N - 1.
C16_PriceAllocationBound ==
    Indexed =>
        /\ Len(op.written) = op.n_split
        /\ \A i \in 1 .. Len(op.written) :
              /\ op.written[i].price >= 0
              /\ op.written[i].price =
                    (op.chunk_chars[i] * op.price_base_units) \div op.total_chars
        /\ SumPrice(op.written) <= op.price_base_units
        /\ op.price_base_units - SumPrice(op.written) <= op.n_split - 1

\* C17: the prices written for an indexed document sum to exactly its
\* base-unit price.
C17_PricesSumToTotal ==
    Indexed => SumPrice(op.written) = op.price_base_units

(* ---- chunk identity ---------------------------------------------------- *)
Retrieved == op.kind \in {"search", "get_chunk_range"}

\* C18: every stored chunk i of the document of source s has the id
\* stable_chunk_uuid(build_doc_id(s), i), however often s is indexed; a
\* chunk-range fetch for (d, i) asks the store for that same id; and the
\* ids handed to the ledger for the chunks of a result are the ids under
\* which the store holds them.
C18_ChunkIdentity ==
    /\ \A r \in doc_store :
          /\ r.doc_id = BuildDocId(r.source)
          /\ r.id = StableChunkUuid(BuildDocId(r.source), r.chunk_id)
    /\ \A r1 \in doc_store, r2 \in doc_store :
          (r1.source = r2.source /\ r1.chunk_id = r2.chunk_id) => r1 = r2
    /\ op.kind = "get_chunk_range" =>
          /\ \A i \in 1 .. Len(op.chunk_ids) :
                op.chunk_ids[i] = StableChunkUuid(op.doc_id, op.start_chunk + i - 1)
          /\ \A d \in op.docs :
                /\ d.doc_id = op.doc_id
                /\ d.chunk_id >= op.start_chunk
                /\ d.id = StableChunkUuid(op.doc_id, d.chunk_id)
    /\ Retrieved => op.ledger_ids = {d.id : d \in op.docs}

\* a range fetch returned two chunks of a document that was indexed.
C18_Witness ==
    /\ op.kind = "get_chunk_range"
    /\ Cardinality(op.docs) >= 2
    /\ op.ledger_ids = {d.id : d \in op.docs}

(* ---- clamp ------------------------------------------------------------- *)
Min(a, b) == IF a < b THEN a ELSE b

\* C19: a search returns at most min(k, max_retrieved_chunks) chunks; a
\* range fetch asks for the ids of the indices start_chunk ..
\* min(end_chunk, start_chunk + max_retrieved_chunks - 1) only, end_chunk
\* being start_chunk when absent; no result, and so no set of ids handed to
\* the ledger, has more than max_retrieved_chunks chunks.
C19_Clamp ==
    /\ op.kind = "search" =>
          Cardinality(op.docs) <= Min(op.k, max_retrieved_chunks)
    /\ op.kind = "get_chunk_range" =>
          LET e == IF op.end_chunk = NoEndChunk THEN op.start_chunk
                   ELSE op.end_chunk
              hi == Min(e, op.start_chunk + max_retrieved_chunks - 1)
          IN Range(op.chunk_ids) =
                {StableChunkUuid(op.doc_id, i) : i \in op.start_chunk .. hi}
    /\ Retrieved =>
          /\ Cardinality(op.docs) <= max_retrieved_chunks
          /\ Cardinality(op.ledger_ids) <= max_retrieved_chunks

\* a range longer than max_retrieved_chunks was asked for and cut.
C19_Witness ==
    /\ op.kind = "get_chunk_range"
    /\ op.end_chunk # NoEndChunk
    /\ op.end_chunk - op.start_chunk + 1 > max_retrieved_chunks
    /\ Cardinality(op.docs) = max_retrieved_chunks

(* ---- empty retrieval --------------------------------------------------- *)
\* the handler of a retrieval route is past its retrieval with no chunk.
RetrievedNothing(t) ==
    /\ req[t].endpoint \in RetrievalEndpoints
    /\ req[t].pc \notin {"idle", "retrieve"}
    /\ req[t].status # 401
    /\ req[t].chunks = {}

\* C20: a retrieval that returns no chunk ends the request at once with
\* 200, an empty result and nothing owed: the ledger is neither read nor
\* written, no 402 is built and the facilitator is not called.
C20_EmptyRetrieval ==
    \A t \in Tasks :
        RetrievedNothing(t) =>
            /\ req[t].pc = "done" /\ req[t].status = 200
            /\ req[t].total_price = 0
            /\ req[t].unpaid = {} /\ req[t].owned = {} /\ req[t].wrote = {}
            /\ req[t].calls = <<>>
            /\ req[t].x_payment = "unread"
            /\ req[t].requirements = NoRequirements
            /\ req[t].accepts = NoRequirements

\* a range with end_chunk < start_chunk, or a search without a match, was
\* answered while the ledger held purchases.
C20_Witness ==
    \E t \in Tasks :
        /\ RetrievedNothing(t)
        /\ req[t].status = 200
        /\ ledger # {}

(* ---- C21 ---------------------------------------------------------------- *)
\* C21: a finished request's response carries X-PAYMENT-RESPONSE exactly
\* when its settle call succeeded and the response is a 200: the header is
\* absent on a 200 that owed nothing, on every 402 and on every 401 and 500.
C21_PaymentResponseHeader ==
    \A t \in Tasks :
        Done(t) =>
            /\ XPaymentResponseHeader(req[t])
                  <=> (Has(t, "settle:success") /\ req[t].status = 200)
            /\ req[t].status \in {401, 402, 500} => ~XPaymentResponseHeader(req[t])
            /\ (req[t].status = 200 /\ req[t].total_price = 0)
                  => ~XPaymentResponseHeader(req[t])

\* one request answered 200 with the header, another answered 500 after its
\* settle call had succeeded.
C21_Witness ==
    \E t \in Tasks, u \in Tasks :
        /\ Done(t) /\ req[t].status = 200 /\ XPaymentResponseHeader(req[t])
        /\ Done(u) /\ req[u].status = 500 /\ Has(u, "settle:success")

(* ---- C22 ---------------------------------------------------------------- *)
\* the step in which record_purchases of request t raises after the settle
\* call of t had succeeded.
RecordFails(t) ==
    /\ req[t].pc = "record" /\ Has(t, "settle:success")
    /\ req'[t].pc = "done"
    /\ req'[t].calls = Append(req[t].calls, "record")
    /\ req'[t].wrote = {}

\* C22: when the ledger write fails after a successful settle, the request
\* ends with 500, the settlement stands, and none of the request's unpaid
\* chunks is in the wallet's ledger (so the wallet is charged for all of them
\* again at its next retrieval).
C22_PaidButNotRecorded ==
    [][\A t \in Tasks :
          RecordFails(t) =>
              /\ req'[t].status = 500
              /\ Has(t, "settle:success") /\ req'[t].x_payment_response
              /\ \A c \in req[t].unpaid : <<req[t].wallet, c>> \notin ledger']_vars

(* ---- C23 ---------------------------------------------------------------- *)
\* the task of request t was cancelled after its settle call had succeeded
\* and before record_purchases ran.
CancelledAfterSettle(t) ==
    /\ req[t].pc = "cancelled"
    /\ Has(t, "settle:success")
    /\ ~Has(t, "record")

\* C23: a request cancelled after a successful settle and before the record
\* step still gets its ledger write attempted eventually, and no request
\* ever leaves a part of its unpaid chunks written.
C23_RecordSurvivesCancel ==
    /\ \A t \in Tasks : CancelledAfterSettle(t) ~> Has(t, "record")
    /\ [](\A t \in Tasks : req[t].wrote \in {{}, UnpaidChunkIds(req[t])})

(* ---- C24 ---------------------------------------------------------------- *)
\* request t is the one that inserts the row (w, c) in this step: it was
\* authenticated as w, c is one of the chunks it retrieved and found unpaid,
\* and its settle call had succeeded.
InsertedBy(t, w, c) ==
    /\ req[t].pc = "record" /\ req'[t].pc = "done"
    /\ GetUserAddress(req[t].authorization, Url(req[t].endpoint), Now)
          = [status |-> 0, address |-> w, detail |-> ""]
    /\ req[t].wallet = w
    /\ c \in req[t].chunks /\ c \in req[t].unpaid
    /\ Has(t, "settle:success")
    /\ c \in req'[t].wrote

\* C24: the ledger only grows, and every row (w, c) that enters it is
\* inserted by a request authenticated as w in which c was a returned unpaid
\* chunk and the settle call had succeeded.
C24_LedgerLifecycle ==
    [][/\ ledger \subseteq ledger'
       /\ \A row \in ledger' \ ledger :
             \E t \in Tasks : InsertedBy(t, row[1], row[2])]_vars

\* both requests have inserted rows, the second into a ledger that already
\* held the rows of the first.
C24_Witness ==
    \E t \in Tasks, u \in Tasks :
        /\ t # u /\ Done(t) /\ Done(u)
        /\ req[t].wrote # {} /\ req[u].wrote # {}
        /\ \A c \in req[t].wrote : <<req[t].wallet, c>> \in ledger
        /\ \A c \in req[u].wrote : <<req[u].wallet, c>> \in ledger

(* ---- C25 ---------------------------------------------------------------- *)
\* C25: every 402 the server answers carries the payment requirements built
\* from the server's settings and the total the request owes.
C25_Every402HasRequirements ==
    \A t \in Tasks :
        (Done(t) /\ req[t].status = 402) =>
            /\ req[t].accepts # NoRequirements
            /\ req[t].accepts = CreatePaymentRequirements(req[t].total_price)

(* ---- C26 ---------------------------------------------------------------- *)
\* the indices request t asked for that the store does not hold.
Missing(t) == req[t].requested \ Chunks

\* C26: a range request is charged for the chunks it retrieved, not for the
\* indices it named: the result is the stored part of the range, an index
\* the store does not hold is in neither the result nor the unpaid chunks,
\* adds nothing to the total owed, and never gets a ledger row.
C26_ChargeOverRetrieved ==
    /\ \A t \in Tasks :
          ( /\ req[t].endpoint = "chunks"
            /\ req[t].pc \notin {"idle", "retrieve"}
            /\ req[t].status # 401 ) =>
              /\ req[t].chunks = req[t].requested \cap Chunks
              /\ req[t].chunks \cap Missing(t) = {}
              /\ req[t].unpaid \subseteq req[t].chunks
              /\ (req[t].pc # "diff") =>
                    req[t].total_price = SumPrices(req[t].unpaid, price)
              /\ req[t].wrote \cap Missing(t) = {}
    /\ \A row \in ledger : row[2] \in Chunks

\* a range that runs past the end of the document was asked for, charged
\* and recorded.
C26_Witness ==
    \E t \in Tasks :
        /\ Done(t) /\ req[t].status = 200
        /\ Missing(t) # {}
        /\ req[t].total_price > 0
        /\ req[t].wrote = req[t].chunks
        /\ req[t].wrote # {}

(* ---- C27 ---------------------------------------------------------------- *)
\* the indexing operation that just ran wrote one record per text chunk,
\* with the indices 0 .. N-1 under their stable ids, and reported N.
WroteDense ==
    /\ Len(op.written) = op.n_split
    /\ \A i \in 1 .. Len(op.written) :
          /\ op.written[i].chunk_id = i - 1
          /\ op.written[i].id = StableChunkUuid(BuildDocId(op.source), i - 1)
          /\ op.written[i] \in doc_store
    /\ op.chunks_count = op.n_split

\* C27: indexing content that splits into N >= 1 chunks writes exactly N
\* records with the chunk indices 0 .. N-1 under the ids
\* stable_chunk_uuid(doc_id, i) and reports chunks_count = N; content that
\* yields no chunk writes no record.
C27_DenseChunkIndices ==
    op.kind \in {"index_document", "index_docs"} =>
        IF op.n_split >= 1
        THEN WroteDense
        ELSE op.written = <<>> /\ op.chunks_count = 0

(* ---- C28 ---------------------------------------------------------------- *)
VerifyCalls == {"verify:" \o reply : reply \in VerifyReplies}
SettleCalls == {"settle:" \o reply : reply \in SettleReplies}

\* the positions in the calls of request t of a call in the set evs.
CallsIn(t, evs) == {i \in 1 .. Len(req[t].calls) : req[t].calls[i] \in evs}

\* C28: a request calls the facilitator's /verify at most once and its
\* /settle at most once, and calls /settle only after its /verify call
\* returned is_valid = true.
C28_NoFacilitatorRetry ==
    \A t \in Tasks :
        /\ Cardinality(CallsIn(t, VerifyCalls)) <= 1
        /\ Cardinality(CallsIn(t, SettleCalls)) <= 1
        /\ \A i \in CallsIn(t, SettleCalls) :
              \E j \in 1 .. (i - 1) : req[t].calls[j] = "verify:valid"

\* one request ended on a verify call that failed, another on a settle
\* call that failed: neither call was made again.
C28_Witness ==
    \E t \in Tasks, u \in Tasks :
        /\ Done(t) /\ req[t].calls = <<"verify:raises">>
        /\ Done(u) /\ req[u].calls = <<"verify:valid", "settle:raises">>

(* ---- C29 ---------------------------------------------------------------- *)
\* what request t would owe if its diff ran on the ledger as it is now.
OwedNow(t) ==
    TotalPrice(FilterUnpaidChunks(req[t].wallet, req[t].chunks, ledger).unpaid, price)

\* C29: the context verify_payment returns carries the payment decoded from
\* the header and the requirements built for the request, and a settle call
\* passes the facilitator exactly the pair the verify call passed, whatever
\* has happened to the ledger in between.
C29_SettleSamePair ==
    \A t \in Tasks :
        /\ req[t].is_verified =>
              /\ req[t].payment_ctx.payment = DecodePayment(req[t].x_payment)
              /\ req[t].payment_ctx.requirements
                    = PaymentRequirements(req[t].total_price, Url(req[t].endpoint))
              /\ req[t].verified_with
                    = VerifyArguments(req[t].payment_ctx.payment,
                                      req[t].payment_ctx.requirements)
        /\ CallsIn(t, SettleCalls) # {} =>
              /\ req[t].settled_with = req[t].verified_with
              /\ req[t].settled_with # NoCall

\* a request has settled with the pair it verified although the ledger has
\* changed since its diff: it now owes less than the requirements say.
C29_Witness ==
    \E t \in Tasks :
        /\ req[t].pc = "record"
        /\ Has(t, "settle:success")
        /\ req[t].settled_with = req[t].verified_with
        /\ OwedNow(t) < req[t].settled_with.requirements.max_amount_required

(* ---- C30 ---------------------------------------------------------------- *)
\* the ledger holds the row of wallet w for the chunk c.
Owns(w, c) == <<w, StableChunkUuid(c.doc_id, c.chunk_id)>> \in ledger

\* C30: the split puts every chunk of its input into exactly one of its two
\* lists, into paid exactly when the ledger holds the wallet's row for the
\* chunk's id, and each list keeps the order of the input; the paid subset
\* is exactly the ids asked for that the ledger holds for the wallet.
C30_SplitPartitions ==
    /\ op.kind = "filter_unpaid_chunks" =>
          /\ op.lists.paid
                = SelectSeq(op.chunks, LAMBDA c : Owns(op.user_address, c))
          /\ op.lists.unpaid
                = SelectSeq(op.chunks, LAMBDA c : ~Owns(op.user_address, c))
          /\ Len(op.lists.paid) + Len(op.lists.unpaid) = Len(op.chunks)
    /\ op.kind = "get_paid_chunk_ids" =>
          op.paid_ids = {id \in Range(op.chunk_ids) :
                            <<op.user_address, id>> \in ledger}

\* a list of two different chunks, one of them twice, was split into a
\* paid part and an unpaid part of which another wallet owns a chunk.
C30_Witness ==
    /\ op.kind = "filter_unpaid_chunks"
    /\ Len(op.chunks) = MaxResults
    /\ op.lists.paid # <<>> /\ op.lists.unpaid # <<>>
    /\ Len(op.lists.paid) + Len(op.lists.unpaid) = MaxResults
    /\ \E i \in 1 .. Len(op.lists.unpaid), w \in Wallets :
          w # op.user_address /\ Owns(w, op.lists.unpaid[i])
    /\ \E i \in 1 .. Len(op.chunks), j \in 1 .. Len(op.chunks) :
          i < j /\ op.chunks[i].chunk_id > op.chunks[j].chunk_id

(* ---- C31 ---------------------------------------------------------------- *)
\* the checks of the verifier in the order claimed, each with whether the
\* header fails it and the reason it gives.
AuthChecks(h, url, now) ==
    <<[fails |-> h.scheme # "Solana", reason |-> "Unsupported scheme"],
      [fails |-> h.wire = "undecodable", reason |-> "Bad auth payload"],
      [fails |-> h.wire = "bad-msg", reason |-> "Bad msg"],
      [fails |-> h.msg.uri # url, reason |-> "URI mismatch"],
      [fails |-> h.msg.issuedAt - now > Skew,
       reason |-> "issued_at is in the future"],
      [fails |-> now - h.msg.issuedAt > Window, reason |-> "message expired"],
      [fails |-> h.address \notin Addresses, reason |-> "Invalid address"],
      [fails |-> ~VerifyKeyVerify(h.address, CanonicalString(h.msg), h.sig),
       reason |-> "Signature verify failed"]>>

\* the checks the header fails.
Failing(h, url, now) ==
    {i \in 1 .. Len(AuthChecks(h, url, now)) : AuthChecks(h, url, now)[i].fails}

\* C31: the 401 of a header that was sent names the first check it fails,
\* in the order scheme, payload, message shape, URI, freshness, address,
\* signature; a uri that differs from the request URL gives "URI mismatch"
\* whatever the age and the signature, and a stale message with the right
\* uri gives "message expired" even under a valid signature.
C31_FirstFailingCheck ==
    (auth.pc = "verified" /\ auth.header # NoAuthorization) =>
        LET h == auth.header
            url == auth.request_uri
            failing == Failing(h, url, auth.now)
            first == CHOOSE i \in failing : \A j \in failing : i <= j
        IN /\ failing = {} <=> auth.result.status = 0
           /\ failing # {} =>
                 /\ auth.result.status = 401
                 /\ auth.result.detail = "Authentication failed: "
                       \o AuthChecks(h, url, auth.now)[first].reason
           /\ (h.scheme = "Solana" /\ h.wire = "ok" /\ h.msg.uri # url) =>
                 auth.result.detail = "Authentication failed: URI mismatch"
           /\ ( /\ h.scheme = "Solana" /\ h.wire = "ok" /\ h.msg.uri = url
                /\ auth.now - h.msg.issuedAt > Window ) =>
                 auth.result.detail = "Authentication failed: message expired"

\* a stale header with a broken signature was sent to another route and
\* refused for the URI.
C31_Witness ==
    /\ auth.pc = "verified"
    /\ auth.header.scheme = "Solana" /\ auth.header.wire = "ok"
    /\ auth.header.msg.uri # auth.request_uri
    /\ auth.now - auth.header.msg.issuedAt > Window
    /\ ~VerifyKeyVerify(auth.header.address, CanonicalString(auth.header.msg),
                        auth.header.sig)
    /\ auth.result.detail = "Authentication failed: URI mismatch"

(* ---- C32 --------------------------------------------------------------- *)
\* the create transactions a _request call has submitted.
SubmittedBy(p) == {i \in DOMAIN pay.submitted : pay.submitted[i].call = p}

\* the three refusals of build_x_payment_header.
Refused(requirements) ==
    \/ requirements.scheme # "exact"
    \/ requirements.network \notin rpc_by_network
    \/ requirements.extra.feePayer = ""

\* C32: a requirement whose scheme is not "exact", whose network has no
\* configured RPC or that lacks extra.feePayer ends the call with the
\* client's exception before any RPC call, before any create transaction
\* is submitted, and without a retry request.
C32_RejectsBeforeSideEffect ==
    \A p \in Payers :
        LET me == pay.proc[p]
        IN  (me.pc # "idle" /\ Refused(me.requirements)) =>
                /\ me.pc = "done"
                /\ me.outcome.kind = "X402RagConnectionError"
                /\ me.trace = <<>>
                /\ SubmittedBy(p) = {}
                /\ me.x_payment = NoPayment

\* a requirement that passes every check but the last is refused, while
\* the other call has gone as far as submitting a create transaction.
C32_Witness ==
    \E p, q \in Payers :
        /\ p # q
        /\ pay.proc[p].pc = "done"
        /\ pay.proc[p].requirements.scheme = "exact"
        /\ pay.proc[p].requirements.network \in rpc_by_network
        /\ IsIntLiteral(pay.proc[p].requirements.maxAmountRequired)
        /\ pay.proc[p].requirements.extra.feePayer = ""
        /\ SubmittedBy(q) # {}

(* ---- C33 --------------------------------------------------------------- *)
\* the places of an event in a call's trace.
Places(trace, event) == {i \in DOMAIN trace : trace[i] = event}

\* the transfer instruction of a built payment.
TransferOf(x_payment) == x_payment.payload.transaction.instructions[3]

\* C33: a call that found its associated token account submits no create
\* transaction; a call that found it missing has submitted exactly one,
\* paid and signed by the caller and not by the fee payer, before its
\* payment transaction is built; either way the transfer's source is the
\* address derived from the caller and the mint, the same for two calls
\* of one wallet that run concurrently.
C33_AtaBootstrap ==
    /\ \A p \in Payers :
        LET me == pay.proc[p]
            owner == Pubkey(me.keypair)
            ata == GetAssociatedTokenAddress(owner, me.requirements.asset)
        IN  /\ me.info = "exists" =>
                /\ SubmittedBy(p) = {}
                /\ Places(me.trace, "send_raw_transaction") = {}
            /\ \A i \in SubmittedBy(p) :
                /\ me.info = "missing"
                /\ pay.submitted[i].tx.payer = owner
                /\ pay.submitted[i].tx.signers = {owner}
                /\ pay.submitted[i].tx.payer # me.requirements.extra.feePayer
            /\ (me.info = "missing" /\ me.x_payment # NoPayment) =>
                /\ Cardinality(SubmittedBy(p)) = 1
                /\ Cardinality(Places(me.trace, "send_raw_transaction")) = 1
                /\ \A i \in Places(me.trace, "send_raw_transaction"),
                      j \in Places(me.trace, "build") : i < j
            /\ me.x_payment # NoPayment =>
                /\ me.info \in {"exists", "missing"}
                /\ TransferOf(me.x_payment).source = ata
    /\ \A p, q \in Payers :
        (/\ pay.proc[p].x_payment # NoPayment
         /\ pay.proc[q].x_payment # NoPayment
         /\ pay.proc[p].keypair = pay.proc[q].keypair
         /\ pay.proc[p].requirements.asset = pay.proc[q].requirements.asset) =>
            TransferOf(pay.proc[p].x_payment).source
                = TransferOf(pay.proc[q].x_payment).source

\* two first-time payments of one wallet: both found the account missing,
\* both submitted a create transaction, both built their payment.
C33_Witness ==
    \E p, q \in Payers :
        /\ p # q
        /\ pay.proc[p].keypair = pay.proc[q].keypair
        /\ pay.proc[p].info = "missing"
        /\ pay.proc[q].info = "missing"
        /\ pay.proc[p].x_payment # NoPayment
        /\ pay.proc[q].x_payment # NoPayment
        /\ Len(pay.submitted) = 2

(* ---- C34 --------------------------------------------------------------- *)
\* C34: a built payment transfers int(maxAmountRequired) of the
\* requirement's asset to the associated token account of payTo, names
\* extra.feePayer as fee payer, carries the caller's signature alone, and
\* is wrapped with the requirement's scheme and network; the PaymentInfo
\* handed to the SDK's caller holds the same amount and payTo, and is
\* handed over exactly when the retry answered 2xx.
C34_PaymentMatchesRequirement ==
    \A p \in Payers :
        LET me == pay.proc[p]
            r == me.requirements
        IN  /\ me.x_payment # NoPayment =>
                LET tx == me.x_payment.payload.transaction
                    ix == TransferOf(me.x_payment)
                IN  /\ Len(tx.instructions) = 3
                    /\ ix.program = "transfer_checked"
                    /\ ix.amount = IntOf(r.maxAmountRequired)
                    /\ ix.mint = r.asset
                    /\ ix.dest = GetAssociatedTokenAddress(r.payTo, r.asset)
                    /\ ix.owner = Pubkey(me.keypair)
                    /\ tx.payer = r.extra.feePayer
                    /\ tx.signers = {Pubkey(me.keypair)}
                    /\ r.extra.feePayer \notin tx.signers
                    /\ me.x_payment.scheme = r.scheme
                    /\ me.x_payment.network = r.network
            /\ me.outcome.payment_info # NoPaymentInfo =>
                /\ me.status \in 200 .. 299
                /\ me.x_payment # NoPayment
                /\ me.outcome.payment_info.paid_amount = IntOf(r.maxAmountRequired)
                /\ me.outcome.payment_info.pay_to = r.payTo
            /\ (me.pc = "done" /\ me.status \in 200 .. 299) =>
                me.outcome.payment_info # NoPaymentInfo

\* one call paid "01" base units to the other merchant and reports 1;
\* the other call's retry was answered 402 and reports nothing.
C34_Witness ==
    \E p, q \in Payers :
        /\ pay.proc[p].pc = "done"
        /\ pay.proc[p].status = 200
        /\ pay.proc[p].requirements.maxAmountRequired = <<"0", "1">>
        /\ pay.proc[p].requirements.payTo = "other-merchant"
        /\ TransferOf(pay.proc[p].x_payment).amount = 1
        /\ pay.proc[p].outcome.payment_info = PaymentInfo(1, "other-merchant")
        /\ pay.proc[q].pc = "done"
        /\ pay.proc[q].status = 402
        /\ pay.proc[q].outcome.payment_info = NoPaymentInfo

(* ---- C35 --------------------------------------------------------------- *)
\* the rows of wallet w in a ledger, and the rows of every other wallet.
OwnRows(w, led) == {row \in led : row[1] = w}
OtherRows(w, led) == {row \in led : row[1] # w}

\* the ledgers that hold the same rows of wallet w as the ledger does.
SameOwnRows(w) ==
    {led \in SUBSET (Wallets \X Chunks) : OwnRows(w, led) = OwnRows(w, ledger)}

\* C35: every step of a request of wallet A reads the ledger through A's
\* rows alone and writes A's rows alone: over any ledger that differs from
\* the actual one only in other wallets' rows, the diff classifies the
\* chunks and the ledger write succeeds or fails exactly as the step did,
\* and no row of another wallet is added or removed.
C35_WalletIsolation ==
    [][\A t \in Tasks : req'[t] # req[t] =>
        LET A == req[t].wallet
            ids == UnpaidChunkIds(req[t])
        IN  /\ \A row \in ledger' \ ledger : row[1] = A
            /\ OtherRows(A, ledger') = OtherRows(A, ledger)
            /\ \A led \in SameOwnRows(A) :
                /\ req[t].pc = "diff" =>
                    /\ FilterUnpaidChunks(A, req[t].chunks, led).unpaid
                            = req'[t].unpaid
                    /\ TotalPrice(FilterUnpaidChunks(A, req[t].chunks, led).unpaid,
                                  price) = req'[t].total_price
                /\ (req[t].pc = "record" /\ ids # {} /\ enabled) =>
                    LET out == InsertPurchases(A, ids, led)
                    IN  /\ out.raised <=> req'[t].status = 500
                        /\ ~out.raised <=> req'[t].status = 200
                        /\ OwnRows(A, out.ledger) = OwnRows(A, ledger')
                        /\ OtherRows(A, out.ledger) = OtherRows(A, led)]_vars

\* two wallets bought the same chunk: the second was charged for it and got
\* its own row although the first wallet's row was in the ledger.
C35_Witness ==
    \E t, u \in Tasks :
        /\ req[t].wallet # req[u].wallet
        /\ req[t].status = 200
        /\ req[u].status = 200
        /\ req[t].wrote \cap req[u].wrote # {}
        /\ \A c \in req[t].wrote : <<req[t].wallet, c>> \in ledger
        /\ \A c \in req[u].wrote : <<req[u].wallet, c>> \in ledger

(* ---- C36 --------------------------------------------------------------- *)
\* C36: with x402 disabled a retrieval that owes something is answered
\* without any facilitator call, never with a 402, without the
\* X-PAYMENT-RESPONSE header and without a ledger row, so that every
\* request, the later ones too, finds all of its chunks unpaid.
C36_DisabledLeavesNoTrace ==
    ~enabled =>
        /\ ledger = {}
        /\ \A t \in Tasks :
            /\ CallsIn(t, VerifyCalls \cup SettleCalls \cup {"record"}) = {}
            /\ req[t].verified_with = NoCall
            /\ req[t].settled_with = NoCall
            /\ req[t].status # 402
            /\ ~XPaymentResponseHeader(req[t])
            /\ req[t].wrote = {}
            /\ req[t].total_price > 0 =>
                /\ req[t].unpaid = req[t].chunks
                /\ req[t].owned = {}
                /\ req[t].pc = "done" => req[t].status = 200

\* a disabled server has answered two requests of one wallet for the same
\* priced chunks, and both found them unpaid.
C36_Witness ==
    /\ ~enabled
    /\ \E t, u \in Tasks :
        /\ t # u
        /\ req[t].wallet = req[u].wallet
        /\ req[t].pc = "done" /\ req[u].pc = "done"
        /\ req[t].status = 200 /\ req[u].status = 200
        /\ req[t].total_price > 0
        /\ req[t].chunks = req[u].chunks
        /\ req[t].unpaid = req[t].chunks
        /\ req[u].unpaid = req[u].chunks

(* ---- C37 --------------------------------------------------------------- *)
\* the unpaid chunks of request t that cost nothing, and those that cost.
FreeUnpaid(t) == {c \in req[t].unpaid : price[c] = 0}
PricedUnpaid(t) == {c \in req[t].unpaid : price[c] > 0}

\* C37: a request whose unpaid chunks all cost nothing ends at the
\* total_owed = 0 short-circuit: no facilitator call, no ledger write, no
\* row; a request that wrote rows wrote them after its settle, for every
\* unpaid chunk, the free ones along with the priced ones.
C37_FreeChunksRideAlong ==
    \A t \in Tasks :
        /\ PricedUnpaid(t) = {} =>
            /\ req[t].total_price = 0
            /\ req[t].pc \notin {"verify", "settle", "record"}
            /\ CallsIn(t, VerifyCalls \cup SettleCalls \cup {"record"}) = {}
            /\ req[t].wrote = {}
        /\ req[t].wrote # {} =>
            /\ PricedUnpaid(t) # {}
            /\ req[t].wrote = FreeUnpaid(t) \cup PricedUnpaid(t)
            /\ \A c \in FreeUnpaid(t) : <<req[t].wallet, c>> \in ledger
            /\ Before(t, "settle:success", "record")

\* one request was answered at the short-circuit with an unpaid free chunk
\* that has no row; another recorded a free chunk along with a priced one.
C37_Witness ==
    \E t, u \in Tasks :
        /\ req[t].pc = "done" /\ req[t].status = 200
        /\ FreeUnpaid(t) # {} /\ PricedUnpaid(t) = {}
        /\ \A c \in FreeUnpaid(t) : <<req[t].wallet, c>> \notin ledger
        /\ req[u].pc = "done" /\ req[u].status = 200
        /\ FreeUnpaid(u) # {} /\ PricedUnpaid(u) # {}
        /\ req[u].wrote = req[u].unpaid

(* ---- C38 --------------------------------------------------------------- *)
\* request t's record_purchases call gets past its early returns.
Records(t) ==
    /\ req[t].pc = "record"
    /\ req'[t].pc = "done"
    /\ ~RecordSkipped(UnpaidChunkIds(req[t]), enabled)

OwedFor(led, p) ==
    SumPrices({c \in chal.chunks : <<chal.wallet, c>> \notin led}, p)

Outcomes == {200, 401, 402, 500}

====
